---- MODULE Spec2Model ----
(***************************************************************************)
(* A model of skopeo-wrapper: the operation tracker with its heartbeat     *)
(* thread and the metrics registry (skopeo_wrapper/metrics.py), and the    *)
(* process coordinator _run_command (skopeo_wrapper/skopeo_wrapper.py).    *)
(*                                                                         *)
(* Python strings are sequences of one-character strings, so that prefix   *)
(* stripping and truncation are computed as the code computes them.  None  *)
(* for a time is NoTime; None and "" for a URL are both the empty          *)
(* sequence (the code tests them with "if not url" / "if source").         *)
(* A gauge value is a fraction <<numerator, denominator>>.                 *)
(***************************************************************************)
EXTENDS Integers, Sequences, FiniteSets, TLC

\* ------------------------------------------------------------ bounds
NumTrackers == 2
MaxTime == 3
MaxInterval == 2
MaxEvents == 1
MaxBlobs == 1

\* --------------------------------------------------- program constants
JoinTimeout == 1
DefaultHeartbeatInterval == 10
MaxLabelLength == 50

Trackers == 1..NumTrackers
NoTime == -1
NoStep == <<>>

\* ------------------------------------------------------------ strings
S_docker == <<"d","o","c","k","e","r",":","/","/">>
S_dir == <<"d","i","r",":">>
S_oci == <<"o","c","i",":","/","/">>
S_unknown == <<"u","n","k","n","o","w","n">>
S_dots == <<".",".",".">>
NoneStr == <<>>
Url_docker_a == S_docker \o <<"a">>
Url_dir_a == S_dir \o <<"a">>
Url_dir_b == S_dir \o <<"b">>

StartsWith(s, p) == Len(s) >= Len(p) /\ SubSeq(s, 1, Len(p)) = p

\* str.replace(pat, ''): every non-overlapping occurrence, left to right
RECURSIVE Replace(_, _)
Replace(s, pat) ==
    IF Len(s) = 0 THEN <<>>
    ELSE IF StartsWith(s, pat) THEN Replace(SubSeq(s, Len(pat) + 1, Len(s)), pat)
    ELSE <<Head(s)>> \o Replace(Tail(s), pat)

_get_short_name(url, max_length) ==
    IF url = NoneStr THEN S_unknown
    ELSE LET short == Replace(Replace(Replace(url, S_docker), S_dir), S_oci)
         IN  IF Len(short) > max_length
             THEN SubSeq(short, 1, max_length - 3) \o S_dots
             ELSE short

_extract_type_from_url(url) ==
    IF StartsWith(url, S_docker) THEN "docker"
    ELSE IF StartsWith(url, S_dir) THEN "dir"
    ELSE IF StartsWith(url, S_oci) THEN "oci"
    ELSE IF StartsWith(url, <<"c","o","n","t","a","i","n","e","r","s","-","s","t","o","r","a","g","e",":","/","/">>)
         THEN "containers_storage"
    ELSE IF StartsWith(url, <<"d","o","c","k","e","r","-","a","r","c","h","i","v","e",":","/","/">>)
         THEN "docker_archive"
    ELSE IF StartsWith(url, <<"o","c","i","-","a","r","c","h","i","v","e",":","/","/">>)
         THEN "oci_archive"
    ELSE "unknown"

\* ------------------------------------------------- inputs of a tracker
\* The trackers the wrapper builds: copy has a source and a destination,
\* the other operations a source only.
TrackerConfigs ==
    { [operation |-> "copy", source |-> Url_docker_a, destination |-> Url_dir_a],
      [operation |-> "inspect", source |-> Url_dir_b, destination |-> NoneStr] }

Kinds == { c.operation : c \in TrackerConfigs }
Statuses == {"success", "error"}
ExcKinds == {"ValueError"}
NoExc == "None"
UrlTypes == {"docker", "dir", "oci", "containers_storage", "docker_archive",
             "oci_archive", "unknown"}

\* (current_step, progress_percent) pairs a progress callback passes
ProgressEvents == { <<"getting_signatures", 10>>, <<"copying_blob", 45>> }
BlobSizes == {0, 2}

GaugeOrder == <<"detailed", "duration", "speed", "last_progress", "stale">>

VARIABLES
    now,            \* time.time()
    removeRaises,   \* whether the installed prometheus_client's remove() raises KeyError on a missing label set
    active,         \* active_operations gauge, by operation
    operations_total, operation_errors_total, duration_count,
    blobs_processed_total, blob_size_obs,
    source_operations_total, destination_operations_total,
    series,         \* the labelled series of the five per-operation gauges
    trk,            \* the OperationTracker objects
    tpc,            \* the thread using each tracker: its position
    pend,           \* that thread's locals: update_progress arguments, the exception of the body, the join deadline
    hpc,            \* each heartbeat thread's position
    hbl,            \* each heartbeat thread's locals
    nEvents         \* update_progress calls made on each tracker

VARIABLES
    rin,            \* the arguments of _run_command and what the child process will do
    rpc,            \* the calling thread's position in _run_command
    proc,           \* the child process
    pipe,           \* the lines in the child's stderr pipe
    rd,             \* the stderr reader thread (monitor_stderr)
    stderrClosed,   \* process.stderr was closed by communicate
    errcap,         \* what communicate has read of stderr
    parser,         \* self.parser: the progress snapshot and the blob registry
    cbs,            \* the calls of progress_callback so far
    result          \* what _run_command returned

VARIABLES
    given,          \* the lines handed to a parser's parse_line by its user, oldest first
    outs,           \* what that user observed after each call: the return value and the percentages
    stale,          \* the reader thread and the stderr pipe left by an earlier _run_command call
    gm              \* the module global _global_metrics and the threads calling get_metrics

counters == <<operations_total, operation_errors_total, duration_count,
              blobs_processed_total, blob_size_obs, source_operations_total,
              destination_operations_total>>

tvars == <<now, removeRaises, active, counters, series, trk, tpc, pend, hpc, hbl, nEvents>>

rvars == <<rin, rpc, proc, pipe, rd, stderrClosed, errcap, parser, cbs, result>>

pvars == <<given, outs, stale, gm>>

vars == <<tvars, rvars, pvars>>

\* ------------------------------------------------ the global metrics
NumThreads == 2
MaxGets == 2
MaxResets == 1
Threads == 1..NumThreads

\* _global_metrics = None.  An instance is the number of the SkopeoMetrics()
\* call that made it.  began and got are history: the number of resets
\* when a thread's get_metrics call began, and what each call returned
\* together with the resets before its start and before its return.
NoInstance == 0
NoGlobal == [inst |-> NoInstance, made |-> 0, resets |-> 0,
             pc |-> [th \in Threads |-> "idle"],
             began |-> [th \in Threads |-> 0],
             got |-> [th \in Threads |-> <<>>]]

\* get_metrics, "if _global_metrics is None:"
GetTest(th) ==
    /\ gm.pc[th] = "idle"
    /\ Len(gm.got[th]) < MaxGets
    /\ gm' = [gm EXCEPT !.pc[th] = IF gm.inst = NoInstance THEN "create" ELSE "return",
                        !.began[th] = gm.resets]
    /\ UNCHANGED <<tvars, rvars, given, outs, stale>>

\* get_metrics, "_global_metrics = SkopeoMetrics()"
GetCreate(th) ==
    /\ gm.pc[th] = "create"
    /\ gm' = [gm EXCEPT !.inst = gm.made + 1, !.made = @ + 1, !.pc[th] = "return"]
    /\ UNCHANGED <<tvars, rvars, given, outs, stale>>

\* get_metrics, "return _global_metrics": the global is read again
GetReturn(th) ==
    /\ gm.pc[th] = "return"
    /\ gm' = [gm EXCEPT !.pc[th] = "idle",
                        !.got[th] = Append(@, [inst |-> gm.inst, began |-> gm.began[th],
                                               ended |-> gm.resets])]
    /\ UNCHANGED <<tvars, rvars, given, outs, stale>>

\* reset_metrics, called by a thread that is not inside get_metrics
ResetMetrics(th) ==
    /\ gm.pc[th] = "idle"
    /\ gm.resets < MaxResets
    /\ gm' = [gm EXCEPT !.inst = NoInstance, !.resets = @ + 1]
    /\ UNCHANGED <<tvars, rvars, given, outs, stale>>

\* ------------------------------------------------------ the registry
\* a variant that takes every time for a missing one
Falsy_always(x) == TRUE

\* "if not x" for a time: None or 0
Falsy(x) == x = NoTime \/ x = 0

SrcShort(t) == _get_short_name(trk[t].source, MaxLabelLength)
DstShort(t) == _get_short_name(trk[t].destination, MaxLabelLength)

\* the entries of gauge g under tracker t's labels with the given step
Entries(S, g, t, step) ==
    { e \in S : /\ e.g = g /\ e.op = trk[t].operation /\ e.src = SrcShort(t)
                /\ e.dst = DstShort(t) /\ e.step = step }

\* gauge.labels(...).set(val): creates the series on first use; by is the
\* tracker that created it
SetSeries(S, g, t, step, val) ==
    LET old == Entries(S, g, t, step)
        by  == IF old = {} THEN t ELSE (CHOOSE e \in old : TRUE).by
    IN  (S \ old) \cup { [g |-> g, op |-> trk[t].operation, src |-> SrcShort(t),
                          dst |-> DstShort(t), step |-> step, val |-> val, by |-> by] }

\* operation_speed has no current_step label
StepOf(g, step) == IF g = "speed" THEN NoStep ELSE step

\* the five remove() calls of stop_heartbeat inside one try/except: a remove
\* that raises skips the calls after it
RECURSIVE RemoveFrom(_, _, _, _, _)
RemoveFrom(S, i, t, step, raises) ==
    IF i > Len(GaugeOrder) THEN S
    ELSE LET old == Entries(S, GaugeOrder[i], t, StepOf(GaugeOrder[i], step))
         IN  IF old = {} /\ raises THEN S
             ELSE RemoveFrom(S \ old, i + 1, t, step, raises)

RemoveSeries(S, t, step, raises) == RemoveFrom(S, 1, t, step, raises)

\* ---------------------------------------------------------------- Init
\* OperationTracker.__init__.  step_ev, percent_ev and time_ev are history:
\* the number of the update_progress call that wrote current_step,
\* last_progress_percent and last_progress_time (0: not by update_progress).
InitTracker(c, iv) ==
    [ operation |-> c.operation, source |-> c.source, destination |-> c.destination,
      start_time |-> NoTime, success |-> FALSE, blob_count |-> 0, total_blob_size |-> 0,
      heartbeat_interval |-> iv, current_step |-> "starting",
      last_progress_time |-> NoTime, last_progress_percent |-> 0,
      heartbeat_running |-> FALSE,
      step_ev |-> 0, percent_ev |-> 0, time_ev |-> 0 ]

NoLocals == [current_time |-> NoTime, duration |-> NoTime, wake |-> NoTime,
             step_ev |-> 0, percent_ev |-> 0, time_ev |-> 0, published |-> FALSE]
NoIteration == [on |-> FALSE, size |-> 0, left |-> {}]
NoPend == [iter |-> NoIteration,
           step |-> NoStep, percent |-> 0, exc |-> NoExc, deadline |-> NoTime,
           joined |-> FALSE, raised |-> NoExc, added |-> 0]

RegistryInit ==
    /\ now = 1
    /\ removeRaises \in BOOLEAN
    /\ active = [k \in Kinds |-> 0]
    /\ operations_total = [k \in Kinds \X Statuses |-> 0]
    /\ operation_errors_total = [k \in Kinds \X ExcKinds |-> 0]
    /\ duration_count = [k \in Kinds |-> 0]
    /\ blobs_processed_total = [k \in Kinds \X Statuses |-> 0]
    /\ blob_size_obs = [k \in Kinds |-> <<>>]
    /\ source_operations_total = [k \in UrlTypes \X Kinds |-> 0]
    /\ destination_operations_total = [k \in UrlTypes \X Kinds |-> 0]
    /\ series = {}
    /\ pend = [t \in Trackers |-> NoPend]
    /\ hpc = [t \in Trackers |-> "off"]
    /\ hbl = [t \in Trackers |-> NoLocals]
    /\ nEvents = [t \in Trackers |-> 0]

\* ------------------------------------------------- SkopeoMetrics methods
record_operation_start(a, op) == [a EXCEPT ![op] = @ + 1]

\* mutant: record_operation_end forgets the gauge
record_operation_end_active_forgotten(a, op) == a

\* record_operation_end, the active-operations gauge
record_operation_end_active(a, op) == [a EXCEPT ![op] = @ - 1]

StatusOf_success(success) == "success"
StatusOf(success) == IF success THEN "success" ELSE "error"

BlobObservations_unconditional(blob_count, total_blob_size) ==
    [i \in 1..blob_count |-> <<total_blob_size, blob_count>>]

\* record_operation_end, the blob histogram: blob_count observations of the
\* average size total_blob_size / blob_count
BlobObservations(blob_count, total_blob_size) ==
    IF blob_count > 0 /\ total_blob_size > 0
    THEN [i \in 1..blob_count |-> <<total_blob_size, blob_count>>]
    ELSE <<>>

\* __exit__: self.success = exc_type is None
ExitSuccess(exc) == exc = NoExc

\* __exit__ has no return statement: it returns None, and the with statement
\* raises the exception of the body again unless that value is true
ExitReturnsTrue == FALSE
Propagates(exc, swallowed) == IF swallowed THEN NoExc ELSE exc

\* ------------------------------------------------------ time passes
Tick ==
    /\ now < MaxTime
    /\ now' = now + 1
    /\ UNCHANGED <<removeRaises, active, counters, series, trk, tpc, pend, hpc, hbl, nEvents>>
    /\ UNCHANGED <<rvars, pvars>>

\* --------------------------------------------------- OperationTracker
\* __enter__: record_operation_start, then start_heartbeat
Enter(t) ==
    /\ tpc[t] = "new"
    /\ active' = record_operation_start(active, trk[t].operation)
    /\ trk' = [trk EXCEPT ![t].start_time = now, ![t].heartbeat_running = TRUE,
                          ![t].last_progress_time = now]
    /\ hpc' = [hpc EXCEPT ![t] = "loop"]
    /\ tpc' = [tpc EXCEPT ![t] = "body"]
    /\ UNCHANGED <<now, removeRaises, counters, series, pend, hbl, nEvents>>
    /\ UNCHANGED <<rvars, pvars>>

\* update_progress, first assignment: self.current_step = current_step
UpdateStep(t) ==
    /\ tpc[t] = "body"
    /\ nEvents[t] < MaxEvents
    /\ \E ev \in ProgressEvents :
         /\ trk' = [trk EXCEPT ![t].current_step = ev[1], ![t].step_ev = nEvents[t] + 1]
         /\ pend' = [pend EXCEPT ![t].step = ev[1], ![t].percent = ev[2]]
    /\ nEvents' = [nEvents EXCEPT ![t] = @ + 1]
    /\ tpc' = [tpc EXCEPT ![t] = "up_percent"]
    /\ UNCHANGED <<now, removeRaises, active, counters, series, hpc, hbl>>
    /\ UNCHANGED <<rvars, pvars>>

\* update_progress, second assignment: self.last_progress_percent = progress_percent
UpdatePercent(t) ==
    /\ tpc[t] = "up_percent"
    /\ trk' = [trk EXCEPT ![t].last_progress_percent = pend[t].percent,
                          ![t].percent_ev = nEvents[t]]
    /\ tpc' = [tpc EXCEPT ![t] = "up_time"]
    /\ UNCHANGED <<now, removeRaises, active, counters, series, pend, hpc, hbl, nEvents>>
    /\ UNCHANGED <<rvars, pvars>>

\* update_progress, third assignment: self.last_progress_time = time.time()
UpdateTime(t) ==
    /\ tpc[t] = "up_time"
    /\ trk' = [trk EXCEPT ![t].last_progress_time = now, ![t].time_ev = nEvents[t]]
    /\ pend' = [pend EXCEPT ![t].step = NoStep, ![t].percent = 0]
    /\ tpc' = [tpc EXCEPT ![t] = "body"]
    /\ UNCHANGED <<now, removeRaises, active, counters, series, hpc, hbl, nEvents>>
    /\ UNCHANGED <<rvars, pvars>>

\* add_blob; a blob_size of None or 0 adds nothing to the total.  pend.added
\* is history: the add_blob calls made in the scope.
add_blob_uncounted(r, blob_size) == r
add_blob(r, blob_size) ==
    [r EXCEPT !.blob_count = @ + 1,
              !.total_blob_size = IF blob_size # 0 THEN @ + blob_size ELSE @]

AddBlob(t) ==
    /\ tpc[t] = "body"
    /\ pend[t].added < MaxBlobs
    /\ \E size \in BlobSizes : trk' = [trk EXCEPT ![t] = add_blob(@, size)]
    /\ pend' = [pend EXCEPT ![t].added = @ + 1]
    /\ UNCHANGED <<now, removeRaises, active, counters, series, tpc, hpc, hbl, nEvents>>
    /\ UNCHANGED <<rvars, pvars>>

\* the body of the with block ends: it returns, or raises an exception of some kind
BodyEnd(t) ==
    /\ tpc[t] = "body"
    /\ \E exc \in {NoExc} \cup ExcKinds : pend' = [pend EXCEPT ![t].exc = exc]
    /\ tpc' = [tpc EXCEPT ![t] = "exit"]
    /\ UNCHANGED <<now, removeRaises, active, counters, series, trk, hpc, hbl, nEvents>>
    /\ UNCHANGED <<rvars, pvars>>

\* stop_heartbeat: self.heartbeat_running = False, and join(timeout=1) begins
StopFlag(t) ==
    /\ tpc[t] = "exit"
    /\ trk' = [trk EXCEPT ![t].heartbeat_running = FALSE]
    /\ pend' = [pend EXCEPT ![t].deadline = now + JoinTimeout]
    /\ tpc' = [tpc EXCEPT ![t] = "join"]
    /\ UNCHANGED <<now, removeRaises, active, counters, series, hpc, hbl, nEvents>>
    /\ UNCHANGED <<rvars, pvars>>

\* join(timeout) returns: the thread has ended, or the timeout has passed
JoinReturns(ended, time, deadline) == ended \/ time >= deadline

\* stop_heartbeat: self.heartbeat_thread.join(timeout=1) returns; joined
\* records whether the thread had ended
Join(t) ==
    /\ tpc[t] = "join"
    /\ JoinReturns(hpc[t] = "done", now, pend[t].deadline)
    /\ pend' = [pend EXCEPT ![t].joined = (hpc[t] = "done"), ![t].deadline = NoTime]
    /\ tpc' = [tpc EXCEPT ![t] = "remove"]
    /\ UNCHANGED <<now, removeRaises, active, counters, series, trk, hpc, hbl, nEvents>>
    /\ UNCHANGED <<rvars, pvars>>

\* stop_heartbeat: the remove() calls, with the current_step of that moment
Remove(t) ==
    /\ tpc[t] = "remove"
    /\ series' = RemoveSeries(series, t, trk[t].current_step, removeRaises)
    /\ tpc' = [tpc EXCEPT ![t] = "end"]
    /\ UNCHANGED <<now, removeRaises, active, counters, trk, pend, hpc, hbl, nEvents>>
    /\ UNCHANGED <<rvars, pvars>>

\* __exit__ after stop_heartbeat: record_operation_end and record_error
RecordEnd(t) ==
    LET op == trk[t].operation
        success == ExitSuccess(pend[t].exc)
        status == StatusOf(success)
        n == trk[t].blob_count
    IN
    /\ tpc[t] = "end"
    /\ trk' = [trk EXCEPT ![t].success = success]
    /\ IF trk[t].start_time # NoTime
       THEN /\ active' = record_operation_end_active(active, op)
            /\ operations_total' = [operations_total EXCEPT ![<<op, status>>] = @ + 1]
            /\ duration_count' = [duration_count EXCEPT ![op] = @ + 1]
            /\ blobs_processed_total' =
                 IF n > 0 THEN [blobs_processed_total EXCEPT ![<<op, status>>] = @ + n]
                 ELSE blobs_processed_total
            /\ blob_size_obs' = [blob_size_obs EXCEPT
                 ![op] = @ \o BlobObservations(n, trk[t].total_blob_size)]
            /\ source_operations_total' =
                 IF trk[t].source # NoneStr
                 THEN [source_operations_total EXCEPT
                         ![<<_extract_type_from_url(trk[t].source), op>>] = @ + 1]
                 ELSE source_operations_total
            /\ destination_operations_total' =
                 IF trk[t].destination # NoneStr
                 THEN [destination_operations_total EXCEPT
                         ![<<_extract_type_from_url(trk[t].destination), op>>] = @ + 1]
                 ELSE destination_operations_total
       ELSE UNCHANGED <<active, operations_total, duration_count, blobs_processed_total,
                        blob_size_obs, source_operations_total, destination_operations_total>>
    /\ operation_errors_total' =
         IF pend[t].exc # NoExc
         THEN [operation_errors_total EXCEPT ![<<op, pend[t].exc>>] = @ + 1]
         ELSE operation_errors_total
    /\ pend' = [pend EXCEPT ![t].raised = Propagates(pend[t].exc, ExitReturnsTrue)]
    /\ tpc' = [tpc EXCEPT ![t] = "closed"]
    /\ UNCHANGED <<now, removeRaises, series, hpc, hbl, nEvents>>
    /\ UNCHANGED <<rvars, pvars>>

\* ------------------------------------------------- the heartbeat thread
\* heartbeat_loop: "while self.heartbeat_running:" and the start of time.sleep
HbLoop(t) ==
    /\ hpc[t] = "loop"
    /\ IF trk[t].heartbeat_running
       THEN /\ hpc' = [hpc EXCEPT ![t] = "sleep"]
            /\ hbl' = [hbl EXCEPT ![t] = [NoLocals EXCEPT !.wake = now + trk[t].heartbeat_interval]]
       ELSE /\ hpc' = [hpc EXCEPT ![t] = "done"]
            /\ hbl' = [hbl EXCEPT ![t] = NoLocals]
    /\ UNCHANGED <<now, removeRaises, active, counters, series, trk, tpc, pend, nEvents>>
    /\ UNCHANGED <<rvars, pvars>>

\* time.sleep returns, and "if self.heartbeat_running:" is read
HbWake(t) ==
    /\ hpc[t] = "sleep"
    /\ now >= hbl[t].wake
    /\ hpc' = [hpc EXCEPT ![t] = IF trk[t].heartbeat_running THEN "u_begin" ELSE "loop"]
    /\ hbl' = [hbl EXCEPT ![t].wake = NoTime]
    /\ UNCHANGED <<now, removeRaises, active, counters, series, trk, tpc, pend, nEvents>>
    /\ UNCHANGED <<rvars, pvars>>

\* update_heartbeat_metrics: the start_time test, current_time and duration
HbBegin(t) ==
    /\ hpc[t] = "u_begin"
    /\ IF Falsy(trk[t].start_time)
       THEN /\ hpc' = [hpc EXCEPT ![t] = "loop"]
            /\ hbl' = hbl
       ELSE /\ hpc' = [hpc EXCEPT ![t] = "u_detailed"]
            /\ hbl' = [hbl EXCEPT ![t].current_time = now,
                                  ![t].duration = now - trk[t].start_time]
    /\ UNCHANGED <<now, removeRaises, active, counters, series, trk, tpc, pend, nEvents>>
    /\ UNCHANGED <<rvars, pvars>>

\* active_operations_detailed.labels(...).set(1)
HbDetailed(t) ==
    /\ hpc[t] = "u_detailed"
    /\ series' = SetSeries(series, "detailed", t, trk[t].current_step, <<1, 1>>)
    /\ hpc' = [hpc EXCEPT ![t] = "u_duration"]
    /\ UNCHANGED <<now, removeRaises, active, counters, trk, tpc, pend, hbl, nEvents>>
    /\ UNCHANGED <<rvars, pvars>>

\* active_operation_duration.labels(...).set(duration)
HbDuration(t) ==
    /\ hpc[t] = "u_duration"
    /\ series' = SetSeries(series, "duration", t, trk[t].current_step, <<hbl[t].duration, 1>>)
    /\ hpc' = [hpc EXCEPT ![t] = "u_speed"]
    /\ UNCHANGED <<now, removeRaises, active, counters, trk, tpc, pend, hbl, nEvents>>
    /\ UNCHANGED <<rvars, pvars>>

\* a variant that does not look at the blob count
PublishesSpeed_any_count(duration, blob_count) == duration > 0

\* the throughput gauge is set only with a positive duration and at least one blob
PublishesSpeed(duration, blob_count) == duration > 0 /\ blob_count > 0

\* operation_speed.labels(...).set(blob_count / duration)
HbSpeed(t) ==
    /\ hpc[t] = "u_speed"
    /\ series' = IF PublishesSpeed(hbl[t].duration, trk[t].blob_count)
                 THEN SetSeries(series, "speed", t, NoStep, <<trk[t].blob_count, hbl[t].duration>>)
                 ELSE series
    /\ hpc' = [hpc EXCEPT ![t] = "u_progress"]
    /\ UNCHANGED <<now, removeRaises, active, counters, trk, tpc, pend, hbl, nEvents>>
    /\ UNCHANGED <<rvars, pvars>>

\* operation_last_progress.labels(...).set(self.last_progress_percent)
HbProgress(t) ==
    /\ hpc[t] = "u_progress"
    /\ series' = SetSeries(series, "last_progress", t, trk[t].current_step,
                           <<trk[t].last_progress_percent, 1>>)
    /\ hbl' = [hbl EXCEPT ![t].step_ev = trk[t].step_ev, ![t].percent_ev = trk[t].percent_ev]
    /\ hpc' = [hpc EXCEPT ![t] = "u_stale"]
    /\ UNCHANGED <<now, removeRaises, active, counters, trk, tpc, pend, nEvents>>
    /\ UNCHANGED <<rvars, pvars>>

\* a variant in which the tick records its own time as the time of the last progress
HbStale_touching(t) ==
    /\ hpc[t] = "u_stale"
    /\ series' = SetSeries(series, "stale", t, trk[t].current_step,
                           <<hbl[t].current_time - trk[t].last_progress_time, 1>>)
    /\ hbl' = [hbl EXCEPT ![t].time_ev = trk[t].time_ev, ![t].published = TRUE]
    /\ trk' = [trk EXCEPT ![t].last_progress_time = hbl[t].current_time]
    /\ hpc' = [hpc EXCEPT ![t] = "loop"]
    /\ UNCHANGED <<now, removeRaises, active, counters, tpc, pend, nEvents>>
    /\ UNCHANGED <<rvars, pvars>>

\* operation_stale_seconds.labels(...).set(current_time - self.last_progress_time),
\* and update_heartbeat_metrics returns
HbStale(t) ==
    /\ hpc[t] = "u_stale"
    /\ IF ~Falsy(trk[t].last_progress_time)
       THEN /\ series' = SetSeries(series, "stale", t, trk[t].current_step,
                                   <<hbl[t].current_time - trk[t].last_progress_time, 1>>)
            /\ hbl' = [hbl EXCEPT ![t].time_ev = trk[t].time_ev, ![t].published = TRUE]
       ELSE UNCHANGED <<series, hbl>>
    /\ hpc' = [hpc EXCEPT ![t] = "loop"]
    /\ UNCHANGED <<now, removeRaises, active, counters, trk, tpc, pend, nEvents>>
    /\ UNCHANGED <<rvars, pvars>>

\* ------------------------------------------------------------ more strings
S_getting_signatures == <<"G","e","t","t","i","n","g"," ","i","m","a","g","e"," ","s","o","u","r","c","e"," ","s","i","g","n","a","t","u","r","e","s">>
S_copying_blob == <<"C","o","p","y","i","n","g"," ","b","l","o","b"," ","s","h","a","2","5","6",":">>
S_copying_config == <<"C","o","p","y","i","n","g"," ","c","o","n","f","i","g"," ","s","h","a","2","5","6",":">>
S_writing_manifest == <<"W","r","i","t","i","n","g"," ","m","a","n","i","f","e","s","t"," ","t","o"," ","i","m","a","g","e"," ","d","e","s","t","i","n","a","t","i","o","n">>
S_storing_signatures == <<"S","t","o","r","i","n","g"," ","s","i","g","n","a","t","u","r","e","s">>
S_error == <<"E","r","r","o","r",":"," ">>
S_bytes == <<" ","b","y","t","e","s",")">>
S_exited_with_code == <<"P","r","o","c","e","s","s"," ","e","x","i","t","e","d"," ","w","i","t","h"," ","c","o","d","e"," ">>
S_timed_out == <<"O","p","e","r","a","t","i","o","n"," ","t","i","m","e","d"," ","o","u","t">>
S_manifest_unknown == <<"m","a","n","i","f","e","s","t"," ","u","n","k","n","o","w","n">>
S_errno == <<"[","E","r","r","n","o"," ">>
S_no_such_file == <<"N","o"," ","s","u","c","h"," ","f","i","l","e"," ","o","r"," ","d","i","r","e","c","t","o","r","y">>
S_skopeo == <<"s","k","o","p","e","o">>
S_callback_failed == <<"c","a","l","l","b","a","c","k"," ","f","a","i","l","e","d">>
S_json == <<"{","}">>
Newline == <<"\n">>

HexChars == {"0","1","2","3","4","5","6","7","8","9","a","b","c","d","e","f"}
Digits == <<"0","1","2","3","4","5","6","7","8","9">>
DigitChars == { Digits[i] : i \in 1..10 }
Whitespace == {" ", "\t", "\n", "\r"}
DigestLength == 64

\* str(n) for an integer
RECURSIVE NatToStr(_)
NatToStr(n) == IF n < 10 THEN <<Digits[n + 1]>> ELSE NatToStr(n \div 10) \o <<Digits[(n % 10) + 1]>>
IntToStr(n) == IF n < 0 THEN <<"-">> \o NatToStr(0 - n) ELSE NatToStr(n)

\* int(s) for a string of digits
DigitValue(c) == CHOOSE i \in 0..9 : Digits[i + 1] = c
RECURSIVE StrToNat(_)
StrToNat(s) == IF Len(s) = 0 THEN 0
               ELSE 10 * StrToNat(SubSeq(s, 1, Len(s) - 1)) + DigitValue(s[Len(s)])

\* str.strip()
RECURSIVE LStrip(_)
LStrip(s) == IF Len(s) > 0 /\ Head(s) \in Whitespace THEN LStrip(Tail(s)) ELSE s
RECURSIVE RStrip(_)
RStrip(s) == IF Len(s) > 0 /\ s[Len(s)] \in Whitespace THEN RStrip(SubSeq(s, 1, Len(s) - 1)) ELSE s
Strip(s) == RStrip(LStrip(s))

\* ------------------------------------------------- SkopeoProgressParser
NoBlob == 0

\* SkopeoProgressParser.__init__: ProgressInfo(operation="", current_step=""),
\* no blobs.  A BlobInfo object is [id, sha256, size, status]; size None is
\* NoSize; current_blob holds the id of the object it refers to.
NoSize == -1
NewParser ==
    [ progress |-> [ operation |-> <<>>, current_step |-> "", total_blobs |-> 0,
                     copied_blobs |-> 0, current_blob |-> NoBlob,
                     manifest_written |-> FALSE, signatures_stored |-> FALSE,
                     error |-> <<>>, completed |-> FALSE ],
      blobs |-> {},
      next_id |-> 1 ]

HasDigest_unchecked(line, prefix) ==
    StartsWith(line, prefix) /\ Len(line) >= Len(prefix) + DigestLength

\* the 64 characters after a prefix are [a-f0-9]
HasDigest(line, prefix) ==
    /\ StartsWith(line, prefix)
    /\ Len(line) >= Len(prefix) + DigestLength
    /\ \A i \in 1..DigestLength : line[Len(prefix) + i] \in HexChars
DigestOf(line, prefix) == SubSeq(line, Len(prefix) + 1, Len(prefix) + DigestLength)

\* the digits of " (<digits> bytes)" right after the digest, or <<>> when the
\* line does not continue that way
RECURSIVE LeadingDigits(_)
LeadingDigits(s) == IF Len(s) > 0 /\ Head(s) \in DigitChars
                    THEN <<Head(s)>> \o LeadingDigits(Tail(s)) ELSE <<>>
\* a variant in which the sized pattern matches no line
SizeDigits_never(line) == <<>>

SizeDigits(line) ==
    LET rest == SubSeq(line, Len(S_copying_blob) + DigestLength + 1, Len(line))
    IN  IF StartsWith(rest, <<" ", "(">>)
        THEN LET ds == LeadingDigits(SubSeq(rest, 3, Len(rest)))
             IN  IF Len(ds) > 0 /\ StartsWith(SubSeq(rest, 3 + Len(ds), Len(rest)), S_bytes)
                 THEN ds ELSE <<>>
        ELSE <<>>

BlobsWith(p, sha) == { b \in p.blobs : b.sha256 = sha }

PutBlob_sizeless(p, sha, size) ==
    [p EXCEPT !.blobs = (@ \ BlobsWith(p, sha)) \cup
                        { [id |-> p.next_id, sha256 |-> sha, size |-> NoSize, status |-> "copying"] },
              !.next_id = @ + 1]

\* a variant that adds the new object without dropping the one it replaces
PutBlob_keeping_old(p, sha, size) ==
    [p EXCEPT !.blobs = @ \cup
                        { [id |-> p.next_id, sha256 |-> sha, size |-> size, status |-> "copying"] },
              !.next_id = @ + 1]

\* self.blobs[sha256] = BlobInfo(...): a new object under the digest
PutBlob(p, sha, size) ==
    [p EXCEPT !.blobs = (@ \ BlobsWith(p, sha)) \cup
                        { [id |-> p.next_id, sha256 |-> sha, size |-> size, status |-> "copying"] },
              !.next_id = @ + 1]

\* a variant in which a line without a size starts the registry afresh
PutBlobIfNew_alone(p, sha) ==
    [p EXCEPT !.blobs = { [id |-> p.next_id, sha256 |-> sha, size |-> NoSize, status |-> "copying"] },
              !.next_id = @ + 1]

\* "if sha256 not in self.blobs: self.blobs[sha256] = BlobInfo(...)"
PutBlobIfNew(p, sha) == IF BlobsWith(p, sha) = {} THEN PutBlob(p, sha, NoSize) ELSE p

\* a variant that answers with the first object ever created
BlobId_first(p, sha) == 1

\* the object the registry holds under the digest
BlobId(p, sha) == (CHOOSE b \in p.blobs : b.sha256 = sha).id

\* parse_line: [event |-> whether a ProgressInfo is returned, parser |-> the parser after the call]
parse_line(p, raw) ==
    LET line == Strip(raw) IN
    IF Len(line) = 0 THEN [event |-> FALSE, parser |-> p]
    ELSE IF StartsWith(line, S_getting_signatures)
    THEN [event |-> TRUE,
          parser |-> [p EXCEPT !.progress.operation = <<"c","o","p","y">>,
                               !.progress.current_step = "getting_signatures"]]
    ELSE IF HasDigest(line, S_copying_blob) /\ SizeDigits(line) # <<>>
    THEN LET sha == DigestOf(line, S_copying_blob)
             q == PutBlob(p, sha, StrToNat(SizeDigits(line)))
         IN  [event |-> TRUE,
              parser |-> [q EXCEPT !.progress.current_blob = BlobId(q, sha),
                                   !.progress.current_step = "copying_blob"]]
    ELSE IF HasDigest(line, S_copying_blob)
    THEN LET sha == DigestOf(line, S_copying_blob)
             q == PutBlobIfNew(p, sha)
         IN  [event |-> TRUE,
              parser |-> [q EXCEPT !.progress.current_blob = BlobId(q, sha),
                                   !.progress.current_step = "copying_blob"]]
    ELSE IF HasDigest(line, S_copying_config)
    THEN LET sha == DigestOf(line, S_copying_config)
             q == PutBlobIfNew(p, sha)
         IN  [event |-> TRUE,
              parser |-> [q EXCEPT !.progress.current_blob = BlobId(q, sha),
                                   !.progress.current_step = "copying_config"]]
    ELSE IF StartsWith(line, S_writing_manifest)
    THEN [event |-> TRUE,
          parser |-> [p EXCEPT !.progress.manifest_written = TRUE,
                               !.progress.current_step = "writing_manifest"]]
    ELSE IF StartsWith(line, S_storing_signatures)
    THEN [event |-> TRUE,
          parser |-> [p EXCEPT !.progress.signatures_stored = TRUE,
                               !.progress.current_step = "storing_signatures"]]
    ELSE IF StartsWith(line, S_error) /\ Len(line) > Len(S_error)
    THEN [event |-> TRUE,
          parser |-> [p EXCEPT !.progress.error = SubSeq(line, Len(S_error) + 1, Len(line)),
                               !.progress.current_step = "error"]]
    ELSE [event |-> FALSE, parser |-> p]

\* get_progress_percentage (the method and the module-level function have
\* the same body): the percentage as <<numerator, denominator>>.
\* 20 + n/(n+1) * 50 is (70n + 20)/(n + 1), which min() caps at 70.
Percent(n) == <<n, 1>>
\* a variant in which the blob share is not divided by n + 1
BlobPercent_undivided(n) == Percent(20 + 50 * n)

BlobPercent(n) ==
    LET den == IF n + 1 > 1 THEN n + 1 ELSE 1
        num == 20 * den + 50 * n
    IN  IF num > 70 * den THEN Percent(70) ELSE <<num, den>>

get_progress_percentage_completed_first(progress, blobs) ==
    IF progress.completed THEN Percent(100) ELSE Percent(0)
get_progress_percentage(progress, blobs) ==
    IF progress.error # <<>> THEN Percent(0)
    ELSE IF progress.completed THEN Percent(100)
    ELSE IF progress.current_step = "getting_signatures" THEN Percent(10)
    ELSE IF progress.current_step = "copying_blob" THEN BlobPercent(Cardinality(blobs))
    ELSE IF progress.current_step = "copying_config" THEN Percent(75)
    ELSE IF progress.current_step = "writing_manifest" THEN Percent(90)
    ELSE IF progress.current_step = "storing_signatures" THEN Percent(95)
    ELSE Percent(0)

\* SkopeoProgressParser.get_progress_percentage(self)
parser_get_progress_percentage(p) == get_progress_percentage(p.progress, p.blobs)

\* ---------------------------------------------------- a parser used directly
MaxFeed == 4

Digest_a == [i \in 1..DigestLength |-> "a"]
Digest_b == [i \in 1..DigestLength |-> "b"]
S_size == <<" ","(","1","0","4","8","5","7","6"," ","b","y","t","e","s",")">>

\* lines given to parse_line: the six recognized forms and the error line,
\* then lines that match no pattern
ParserLines == << S_getting_signatures,
                  S_copying_blob \o Digest_a \o S_size,
                  S_copying_blob \o Digest_a,
                  S_copying_config \o Digest_b,
                  S_writing_manifest,
                  S_storing_signatures,
                  S_error \o S_manifest_unknown,
                  <<>>,
                  <<" ", "\t", " ">>,
                  S_copying_blob \o SubSeq(Digest_a, 2, DigestLength) \o <<"G">>,
                  <<"I", "N", "F", "O", " ">> \o S_storing_signatures,
                  <<"E", "r", "r", "o", "r", ":">> >>
ParserLineIds == 1..Len(ParserLines)

\* parser.parse_line(line) for a line of the table, then both percentage functions
FeedFrom(lines) ==
    /\ Len(given) < MaxFeed
    /\ \E id \in 1..Len(lines) :
         LET r == parse_line(parser, lines[id]) IN
         /\ parser' = r.parser
         /\ given' = Append(given, id)
         /\ outs' = Append(outs, [event |-> r.event,
                                  percent |-> parser_get_progress_percentage(r.parser),
                                  percent_fn |-> get_progress_percentage(r.parser.progress,
                                                                         r.parser.blobs)])
    /\ UNCHANGED <<rin, rpc, proc, pipe, rd, stderrClosed, errcap, cbs, result, stale, gm, tvars>>

Feed == FeedFrom(ParserLines)

\* blob and config lines: sightings of one digest without a size, with a
\* size and with a smaller size, a config line, and lines whose digest token
\* is one character too long, one too short, or not hexadecimal
S_small_size == <<" ","(","5"," ","b","y","t","e","s",")">>
DigestLines == << S_copying_blob \o Digest_a,
                  S_copying_blob \o Digest_a \o S_size,
                  S_copying_blob \o Digest_a \o S_small_size,
                  S_copying_config \o Digest_b,
                  S_copying_blob \o Digest_b \o <<"b">>,
                  S_copying_config \o SubSeq(Digest_b, 2, DigestLength),
                  S_copying_config \o SubSeq(Digest_b, 2, DigestLength) \o <<"Z">> >>

FeedDigest == FeedFrom(DigestLines)

\* ------------------------------------- the percentage of a given snapshot
MaxBlobCount == 3

ParserSteps == {"", "getting_signatures", "copying_blob", "copying_config",
                "writing_manifest", "storing_signatures", "error", "completed"}
DigestChars == <<"a", "b", "c", "d", "e", "f">>

\* a registry of n blobs
BlobSet(n) == { [id |-> i, sha256 |-> [k \in 1..DigestLength |-> DigestChars[i]],
                 size |-> NoSize, status |-> "copying"] : i \in 1..n }

\* a parser with the given snapshot fields and n blobs
ParserWith(step, error, completed, n) ==
    [ progress |-> [NewParser.progress EXCEPT !.current_step = step, !.error = error,
                                              !.completed = completed],
      blobs |-> BlobSet(n),
      next_id |-> n + 1 ]

\* the snapshots a callback can be handed: any step, with or without an
\* error, completed or not (a line parsed after the exit leaves completed
\* set under any step); the step copying_blob comes with at least one blob
Snapshots ==
    { ParserWith(step, error, completed, n) :
        step \in ParserSteps, error \in {<<>>, S_manifest_unknown},
        completed \in BOOLEAN, n \in 0..MaxBlobCount }
    \ { ParserWith("copying_blob", error, completed, 0) :
        error \in {<<>>, S_manifest_unknown}, completed \in BOOLEAN }

\* both percentage functions applied to the snapshot
Estimate ==
    /\ outs = <<>>
    /\ outs' = <<[event |-> FALSE,
                  percent |-> parser_get_progress_percentage(parser),
                  percent_fn |-> get_progress_percentage(parser.progress, parser.blobs)]>>
    /\ UNCHANGED <<rin, rpc, proc, pipe, rd, stderrClosed, errcap, parser, cbs, result,
                   given, stale, gm, tvars>>

\* ------------------------------------------------------------ _run_command
\* One call of SkopeoWrapper._run_command.  The child writes the lines of
\* rin.lines to its stderr, its stdout text is rin.out, it exits with
\* rin.code; Popen fails with rin.spawn when that is not NoSpawnError.  The
\* stderr pipe has two readers: the monitor_stderr thread and communicate().
MaxLines == 2

\* what a child writes on stderr: a progress line, an error line, a blank
\* line, and the blob and config lines of a copy
StderrLines == << S_getting_signatures \o Newline,
                  S_error \o S_manifest_unknown \o Newline,
                  <<" ", " ">> \o Newline,
                  S_copying_blob \o Digest_a \o S_small_size \o Newline,
                  S_copying_config \o Digest_b \o Newline >>
\* the lines that name a digest, which a copy writes, and the others
DigestLineIds == { i \in 1..Len(StderrLines) :
                    HasDigest(StderrLines[i], S_copying_blob)
                    \/ HasDigest(StderrLines[i], S_copying_config) }
LineIds == (1..Len(StderrLines)) \ DigestLineIds
LineSeqs == UNION { [1..n -> LineIds] : n \in 0..MaxLines }
ExitCodes == {0, 1}
NoCode == -1
SigKill == -9
NoLine == 0
NoSpawnError == [type |-> "None", errno |-> 0, strerror |-> <<>>, filename |-> <<>>]
SpawnErrors == { [type |-> "FileNotFoundError", errno |-> 2,
                  strerror |-> S_no_such_file, filename |-> S_skopeo] }
Callbacks == {"none", "returns", "raises"}

\* str(e) of an OSError with a file name, and of the exception of a callback
StrOSError(e) == S_errno \o IntToStr(e.errno) \o <<"]", " ">> \o e.strerror
                 \o <<":", " ", "'">> \o e.filename \o <<"'">>
CallbackErrorText == S_callback_failed

RunInputs ==
    { [lines |-> ls, code |-> c, out |-> S_json, cb |-> cb, timeout |-> to, spawn |-> sp] :
        ls \in LineSeqs, c \in ExitCodes, cb \in Callbacks, to \in BOOLEAN,
        sp \in {NoSpawnError} \cup SpawnErrors }

NoProcess == [state |-> "none", returncode |-> NoCode, todo |-> <<>>]
\* fed and called are history: the lines handed to parse_line and the lines
\* for which the callback was called, in the order in which that happened
NoReader == [pc |-> "off", buf |-> <<>>, line |-> NoLine, captured |-> <<>>,
             fed |-> <<>>, called |-> <<>>]
\* no earlier call: nothing is left behind
NoStale == [parked |-> FALSE, rd |-> NoReader, pipe |-> <<>>, closed |-> FALSE]
NoSnapshot == [error |-> <<>>, completed |-> FALSE, current_step |-> ""]
NoResult == [via |-> "none", success |-> FALSE, stdout |-> <<>>, stderr |-> <<>>,
             snapshot |-> NoSnapshot]

RunIdle ==
    /\ rin = [lines |-> <<>>, code |-> 0, out |-> <<>>, cb |-> "none",
              timeout |-> FALSE, spawn |-> NoSpawnError]
    /\ rpc = "idle"
    /\ proc = NoProcess
    /\ pipe = <<>>
    /\ rd = NoReader
    /\ stderrClosed = FALSE
    /\ errcap = <<>>
    /\ parser = NewParser
    /\ cbs = <<>>
    /\ result = NoResult
    /\ given = <<>>
    /\ outs = <<>>
    /\ stale = NoStale
    /\ gm = NoGlobal

\* the text of lines read from the pipe
RECURSIVE TextOf(_)
TextOf(ids) == IF ids = <<>> THEN <<>> ELSE StderrLines[Head(ids)] \o TextOf(Tail(ids))

\* what a callback sees of the ProgressInfo it is handed
Snapshot(p) == [error |-> p.progress.error, completed |-> p.progress.completed,
                current_step |-> p.progress.current_step]
Call(final, p) == [final |-> final, seen |-> Snapshot(p)]

\* the three results of _run_command
ReturnExit(rc, stdout, stderr, p) ==
    [via |-> "exit", success |-> (rc = 0), stdout |-> stdout, stderr |-> stderr,
     snapshot |-> Snapshot(p)]
ReturnTimeout(p) ==
    [via |-> "timeout", success |-> FALSE, stdout |-> <<>>, stderr |-> S_timed_out,
     snapshot |-> Snapshot(p)]
ReturnException_text_lost(text, p) ==
    [via |-> "exception", success |-> FALSE, stdout |-> <<>>, stderr |-> <<>>,
     snapshot |-> Snapshot(p)]
ReturnException(text, p) ==
    [via |-> "exception", success |-> FALSE, stdout |-> <<>>, stderr |-> text,
     snapshot |-> Snapshot(p)]

\* process.kill(): a child that has exited is left alone
process_kill_skipped(p) == p
process_kill(p) == IF p.state = "running"
                   THEN [p EXCEPT !.state = "killed", !.returncode = SigKill]
                   ELSE p

\* lines 232-236: the outcome written into the parser's progress
MarkOutcome_quiet(p, rc) ==
    IF rc = 0 THEN [p EXCEPT !.progress.completed = TRUE, !.progress.current_step = "completed"]
    ELSE p
MarkOutcome(p, rc) ==
    IF rc = 0 THEN [p EXCEPT !.progress.completed = TRUE, !.progress.current_step = "completed"]
    ELSE [p EXCEPT !.progress.error = S_exited_with_code \o IntToStr(rc)]

\* lines 198-223, Popen succeeds: a fresh parser, the child runs, the
\* monitor thread is started
Popen ==
    /\ rpc = "start"
    /\ rin.spawn = NoSpawnError
    /\ parser' = NewParser
    /\ proc' = [state |-> "running", returncode |-> NoCode, todo |-> rin.lines]
    /\ rd' = [NoReader EXCEPT !.pc = "read"]
    /\ rpc' = "communicate"
    /\ UNCHANGED <<rin, pipe, stderrClosed, errcap, cbs, result, tvars, pvars>>

\* lines 198-208 and 248-249: Popen raises, "except Exception" returns
PopenFails ==
    /\ rpc = "start"
    /\ rin.spawn # NoSpawnError
    /\ parser' = NewParser
    /\ result' = ReturnException(StrOSError(rin.spawn), parser')
    /\ rpc' = "returned"
    /\ UNCHANGED <<rin, proc, pipe, rd, stderrClosed, errcap, cbs, tvars, pvars>>

\* the child writes its next stderr line
ChildWrite ==
    /\ proc.state = "running"
    /\ proc.todo # <<>>
    /\ pipe' = Append(pipe, Head(proc.todo))
    /\ proc' = [proc EXCEPT !.todo = Tail(@)]
    /\ UNCHANGED <<rin, rpc, rd, stderrClosed, errcap, parser, cbs, result, tvars, pvars>>

\* the child exits after its last line
ChildExit ==
    /\ proc.state = "running"
    /\ proc.todo = <<>>
    /\ proc' = [proc EXCEPT !.state = "exited", !.returncode = rin.code]
    /\ UNCHANGED <<rin, rpc, pipe, rd, stderrClosed, errcap, parser, cbs, result, tvars, pvars>>

\* readline() on buffered lines: the first one, the others stay buffered
FirstLine_newest(lines) == lines[Len(lines)]
FirstLine(lines) == Head(lines)
RestLines(lines) == Tail(lines)

\* monitor_stderr, line 212: process.stderr.readline().  A closed file
\* raises ValueError and ends the thread; otherwise the next buffered line,
\* or what the pipe holds, or '' at end of file.
MonitorRead ==
    /\ rd.pc = "read"
    /\ IF stderrClosed
       THEN /\ rd' = [rd EXCEPT !.pc = "died", !.buf = <<>>]
            /\ pipe' = pipe
       ELSE IF rd.buf # <<>>
       THEN /\ rd' = [rd EXCEPT !.pc = "line", !.line = FirstLine(rd.buf), !.buf = RestLines(rd.buf)]
            /\ pipe' = pipe
       ELSE IF pipe # <<>>
       THEN /\ rd' = [rd EXCEPT !.pc = "line", !.line = FirstLine(pipe), !.buf = RestLines(pipe)]
            /\ pipe' = <<>>
       ELSE /\ proc.state \in {"exited", "killed"}
            /\ rd' = [rd EXCEPT !.pc = "done"]
            /\ pipe' = pipe
    /\ UNCHANGED <<rin, rpc, proc, stderrClosed, errcap, parser, cbs, result, tvars, pvars>>

\* monitor_stderr, lines 213-218: parse the line, hand the progress to the
\* callback; a callback that raises ends the thread
MonitorLine ==
    /\ rd.pc = "line"
    /\ LET text == StderrLines[rd.line]
           nonblank == Len(Strip(text)) > 0
           r == IF nonblank THEN parse_line(parser, text)
                ELSE [event |-> FALSE, parser |-> parser]
           called == r.event /\ rin.cb # "none"
       IN  /\ parser' = r.parser
           /\ cbs' = IF called THEN Append(cbs, Call(FALSE, r.parser)) ELSE cbs
           /\ rd' = [rd EXCEPT !.pc = IF called /\ rin.cb = "raises" THEN "died" ELSE "read",
                               !.line = NoLine,
                               !.fed = IF nonblank THEN Append(@, rd.line) ELSE @,
                               !.called = IF called THEN Append(@, rd.line) ELSE @,
                               !.captured = IF r.parser.progress.error # parser.progress.error
                                            THEN r.parser.progress.error ELSE @]
    /\ UNCHANGED <<rin, rpc, proc, pipe, stderrClosed, errcap, result, tvars, pvars>>

\* communicate(), line 226: reads what the pipe holds
CommunicateRead ==
    /\ rpc = "communicate"
    /\ pipe # <<>>
    /\ errcap' = errcap \o pipe
    /\ pipe' = <<>>
    /\ UNCHANGED <<rin, rpc, proc, rd, stderrClosed, parser, cbs, result, tvars, pvars>>

\* communicate(), line 226: end of file on the pipes of a child that has
\* exited; communicate closes process.stderr and returns
CommunicateReturns ==
    /\ rpc = "communicate"
    /\ proc.state = "exited"
    /\ pipe = <<>>
    /\ stderrClosed' = TRUE
    /\ rpc' = "join"
    /\ UNCHANGED <<rin, proc, pipe, rd, errcap, parser, cbs, result, tvars, pvars>>

\* communicate(timeout=timeout), line 226: the deadline passes first
CommunicateTimesOut ==
    /\ rpc = "communicate"
    /\ rin.timeout
    /\ rpc' = "timeout"
    /\ UNCHANGED <<rin, proc, pipe, rd, stderrClosed, errcap, parser, cbs, result, tvars, pvars>>

\* lines 245-247: except TimeoutExpired
TimeoutExpired ==
    /\ rpc = "timeout"
    /\ proc' = process_kill(proc)
    /\ result' = ReturnTimeout(parser)
    /\ rpc' = "returned"
    /\ UNCHANGED <<rin, pipe, rd, stderrClosed, errcap, parser, cbs, tvars, pvars>>

\* a variant of the join without a timeout: it waits for the thread to end
JoinMonitor_unbounded ==
    /\ rpc = "join"
    /\ rd.pc \in {"done", "died"}
    /\ rpc' = "mark"
    /\ UNCHANGED <<rin, proc, pipe, rd, stderrClosed, errcap, parser, cbs, result, tvars, pvars>>

\* stderr_thread.join(timeout=1), line 229: the thread has ended, or the
\* second has passed
JoinMonitor ==
    /\ rpc = "join"
    /\ rpc' = "mark"
    /\ UNCHANGED <<rin, proc, pipe, rd, stderrClosed, errcap, parser, cbs, result, tvars, pvars>>

\* lines 232-236
Mark ==
    /\ rpc = "mark"
    /\ parser' = MarkOutcome(parser, proc.returncode)
    /\ rpc' = "final"
    /\ UNCHANGED <<rin, proc, pipe, rd, stderrClosed, errcap, cbs, result, tvars, pvars>>

\* a variant without the handler of lines 248-249: the captured output is
\* returned whatever the final callback does
Finish_returning_output ==
    /\ rpc = "final"
    /\ cbs' = IF rin.cb # "none" THEN Append(cbs, Call(TRUE, parser)) ELSE cbs
    /\ result' = ReturnExit(proc.returncode, rin.out, TextOf(errcap), parser)
    /\ rpc' = "returned"
    /\ UNCHANGED <<rin, proc, pipe, rd, stderrClosed, errcap, parser, tvars, pvars>>

\* lines 238-243 and 248-249: the final callback, then the return; a
\* callback that raises is caught by "except Exception"
Finish ==
    /\ rpc = "final"
    /\ cbs' = IF rin.cb # "none" THEN Append(cbs, Call(TRUE, parser)) ELSE cbs
    /\ result' = IF rin.cb = "raises"
                 THEN ReturnException(CallbackErrorText, parser)
                 ELSE ReturnExit(proc.returncode, rin.out, TextOf(errcap), parser)
    /\ rpc' = "returned"
    /\ UNCHANGED <<rin, proc, pipe, rd, stderrClosed, errcap, parser, tvars, pvars>>

\* ------------------------------------------- a second call on the wrapper
\* what the child of the second call does: it writes nothing and exits with 0
SecondInput == [lines |-> <<>>, code |-> 0, out |-> S_json, cb |-> "none",
                timeout |-> FALSE, spawn |-> NoSpawnError]

\* _run_command is called again on the same wrapper, lines 198-223: a fresh
\* parser replaces self.parser, a new child and a new monitor thread are
\* started.  Nothing stops the monitor thread of the call before: it keeps
\* its own process.stderr.
NextCommand ==
    /\ rpc = "returned"
    /\ ~stale.parked
    /\ stale' = [parked |-> TRUE, rd |-> rd, pipe |-> pipe, closed |-> stderrClosed]
    /\ rin' = SecondInput
    /\ parser' = NewParser
    /\ proc' = [state |-> "running", returncode |-> NoCode, todo |-> SecondInput.lines]
    /\ rd' = [NoReader EXCEPT !.pc = "read"]
    /\ pipe' = <<>>
    /\ stderrClosed' = FALSE
    /\ errcap' = <<>>
    /\ cbs' = <<>>
    /\ result' = NoResult
    /\ rpc' = "communicate"
    /\ UNCHANGED <<given, outs, gm, tvars>>

\* monitor_stderr of the earlier call, line 212: readline() on the earlier
\* child's stderr; that child has exited or was killed
StaleRead ==
    /\ stale.parked
    /\ stale.rd.pc = "read"
    /\ stale' =
         IF stale.closed
         THEN [stale EXCEPT !.rd.pc = "died", !.rd.buf = <<>>]
         ELSE IF stale.rd.buf # <<>>
         THEN [stale EXCEPT !.rd.pc = "line", !.rd.line = FirstLine(stale.rd.buf),
                            !.rd.buf = RestLines(stale.rd.buf)]
         ELSE IF stale.pipe # <<>>
         THEN [stale EXCEPT !.rd.pc = "line", !.rd.line = FirstLine(stale.pipe),
                            !.rd.buf = RestLines(stale.pipe), !.pipe = <<>>]
         ELSE [stale EXCEPT !.rd.pc = "done"]
    /\ UNCHANGED <<rvars, given, outs, gm, tvars>>

\* monitor_stderr of the earlier call, lines 213-215: "self.parser" is
\* looked up when the line is handled, so the line goes to the parser of
\* the call that is running now
StaleLine ==
    /\ stale.parked
    /\ stale.rd.pc = "line"
    /\ LET text == StderrLines[stale.rd.line]
           nonblank == Len(Strip(text)) > 0
       IN  /\ parser' = IF nonblank THEN parse_line(parser, text).parser ELSE parser
           /\ stale' = [stale EXCEPT !.rd.pc = "read", !.rd.line = NoLine,
                                     !.rd.fed = IF nonblank THEN Append(@, stale.rd.line) ELSE @]
    /\ UNCHANGED <<rin, rpc, proc, pipe, rd, stderrClosed, errcap, cbs, result, given, outs, gm, tvars>>

\* ------------------------------------------------ copy with metrics enabled
\* tracker.update_progress(current_step, progress_percent) as one step
update_progress(r, step, percent, time) ==
    [r EXCEPT !.current_step = step, !.last_progress_percent = percent,
              !.last_progress_time = time]

\* wrapped_callback, lines 265-271: update_progress with the step of the
\* snapshot and the percentage of its parser
Tracked(r, p, time) ==
    update_progress(r, p.progress.current_step, parser_get_progress_percentage(p), time)

\* what the caller's callback sees, and what the tracker holds at that moment
CopyCall(final, p, r) ==
    [final |-> final, seen |-> Snapshot(p),
     tracked |-> [current_step |-> r.current_step, percent |-> r.last_progress_percent]]

\* monitor_stderr in a copy: progress_callback is wrapped_callback, which is
\* never None, so every progress line reaches the tracker, and the caller's
\* callback after it
CopyMonitorLine ==
    /\ rd.pc = "line"
    /\ LET text == StderrLines[rd.line]
           nonblank == Len(Strip(text)) > 0
           r == IF nonblank THEN parse_line(parser, text)
                ELSE [event |-> FALSE, parser |-> parser]
           tracked == IF r.event THEN Tracked(trk[1], r.parser, now) ELSE trk[1]
           called == r.event /\ rin.cb # "none"
       IN  /\ parser' = r.parser
           /\ trk' = [trk EXCEPT ![1] = tracked]
           /\ cbs' = IF called THEN Append(cbs, CopyCall(FALSE, r.parser, tracked)) ELSE cbs
           /\ rd' = [rd EXCEPT !.pc = IF called /\ rin.cb = "raises" THEN "died" ELSE "read",
                               !.line = NoLine,
                               !.fed = IF nonblank THEN Append(@, rd.line) ELSE @,
                               !.called = IF called THEN Append(@, rd.line) ELSE @,
                               !.captured = IF r.parser.progress.error # parser.progress.error
                                            THEN r.parser.progress.error ELSE @]
    /\ UNCHANGED <<rin, rpc, proc, pipe, stderrClosed, errcap, result, pvars>>
    /\ UNCHANGED <<now, removeRaises, active, counters, series, tpc, pend, hpc, hbl, nEvents>>

\* the final callback of a copy, lines 238-243 and 248-249
CopyFinish ==
    /\ rpc = "final"
    /\ LET tracked == Tracked(trk[1], parser, now) IN
       /\ trk' = [trk EXCEPT ![1] = tracked]
       /\ cbs' = IF rin.cb # "none" THEN Append(cbs, CopyCall(TRUE, parser, tracked)) ELSE cbs
    /\ result' = IF rin.cb = "raises"
                 THEN ReturnException(CallbackErrorText, parser)
                 ELSE ReturnExit(proc.returncode, rin.out, TextOf(errcap), parser)
    /\ rpc' = "returned"
    /\ UNCHANGED <<rin, proc, pipe, rd, stderrClosed, errcap, parser, pvars>>
    /\ UNCHANGED <<now, removeRaises, active, counters, series, tpc, pend, hpc, hbl, nEvents>>

\* copy, line 278: "for blob in self.parser.blobs.values():" creates the
\* iterator, which remembers the size of the dict
CopyLoopBegin(t) ==
    /\ tpc[t] = "body"
    /\ rpc = "returned"
    /\ pend' = [pend EXCEPT ![t].iter = [on |-> TRUE, size |-> Cardinality(parser.blobs),
                                         left |-> { b.sha256 : b \in parser.blobs }]]
    /\ tpc' = [tpc EXCEPT ![t] = "blobs"]
    /\ UNCHANGED <<now, removeRaises, active, counters, series, trk, hpc, hbl, nEvents>>
    /\ UNCHANGED <<rvars, pvars>>

\* the blob_size argument for a size: None adds nothing, as 0 does
SizeArgument(size) == IF size = NoSize THEN 0 ELSE size

\* copy, lines 278-281: the next value of the iterator and add_blob with its
\* size; a dict whose size has changed raises RuntimeError; at the end of
\* the dict the body returns the triple
CopyLoopStep(t) ==
    /\ tpc[t] = "blobs"
    /\ IF Cardinality(parser.blobs) # pend[t].iter.size
       THEN /\ pend' = [pend EXCEPT ![t].exc = "RuntimeError", ![t].iter.on = FALSE]
            /\ tpc' = [tpc EXCEPT ![t] = "exit"]
            /\ trk' = trk
       ELSE IF pend[t].iter.left = {}
       THEN /\ pend' = [pend EXCEPT ![t].exc = NoExc, ![t].iter.on = FALSE]
            /\ tpc' = [tpc EXCEPT ![t] = "exit"]
            /\ trk' = trk
       ELSE \E sha \in pend[t].iter.left :
            /\ trk' = [trk EXCEPT ![t] =
                         add_blob(@, SizeArgument((CHOOSE b \in parser.blobs : b.sha256 = sha).size))]
            /\ pend' = [pend EXCEPT ![t].iter.left = @ \ {sha}, ![t].added = @ + 1]
            /\ tpc' = tpc
    /\ UNCHANGED <<now, removeRaises, active, counters, series, hpc, hbl, nEvents>>
    /\ UNCHANGED <<rvars, pvars>>

\* the calls a copy makes: the child writes up to MaxLines of the first
\* progress line and the digest lines
CopyLineIds == { i \in 1..Len(StderrLines) : StderrLines[i] = S_getting_signatures \o Newline }
                   \cup DigestLineIds
CopyInputs ==
    { [lines |-> ls, code |-> c, out |-> <<>>, cb |-> cb, timeout |-> to, spawn |-> NoSpawnError] :
        ls \in UNION { [1..n -> CopyLineIds] : n \in 0..MaxLines },
        c \in ExitCodes, cb \in Callbacks, to \in BOOLEAN }

\* ------------------------------------------------------------ image_exists
S_error_reading_manifest == <<"e","r","r","o","r"," ","r","e","a","d","i","n","g"," ","m","a","n","i","f","e","s","t">>
S_repository_not_found == <<"r","e","p","o","s","i","t","o","r","y"," ","n","o","t"," ","f","o","u","n","d">>
S_unauthorized == <<"u","n","a","u","t","h","o","r","i","z","e","d">>
S_forbidden == <<"f","o","r","b","i","d","d","e","n">>
S_unauthorized_access == <<"U","n","a","u","t","h","o","r","i","z","e","d"," ","a","c","c","e","s","s",":"," ">>
S_access_forbidden == <<"A","c","c","e","s","s"," ","f","o","r","b","i","d","d","e","n",":"," ">>
S_unexpected_error == <<"U","n","e","x","p","e","c","t","e","d"," ","e","r","r","o","r",":"," ">>

UpperChars == <<"A","B","C","D","E","F","G","H","I","J","K","L","M","N","O","P","Q","R","S","T","U","V","W","X","Y","Z">>
LowerChars == <<"a","b","c","d","e","f","g","h","i","j","k","l","m","n","o","p","q","r","s","t","u","v","w","x","y","z">>

\* str.lower()
LowerChar(c) ==
    IF \E i \in 1..Len(UpperChars) : UpperChars[i] = c
    THEN LowerChars[CHOOSE i \in 1..Len(UpperChars) : UpperChars[i] = c] ELSE c
Lower(str) == [i \in 1..Len(str) |-> LowerChar(str[i])]

\* "sub in str"
Contains(str, sub) ==
    \E i \in 1..(Len(str) - Len(sub) + 1) : SubSeq(str, i, i + Len(sub) - 1) = sub

\* the triples image_exists returns: (success, exists, error_message)
Found == [success |-> TRUE, exists |-> TRUE, message |-> <<>>]
NotFound_as_found == [success |-> TRUE, exists |-> TRUE, message |-> <<>>]
NotFound == [success |-> TRUE, exists |-> FALSE, message |-> <<>>]
Failed(message) == [success |-> FALSE, exists |-> FALSE, message |-> message]

\* image_exists after _run_command has returned (success, stdout, stderr);
\* both branches (with and without metrics) classify in the same way
image_exists(success, stderr) ==
    IF success THEN Found
    ELSE IF Contains(Lower(stderr), S_manifest_unknown) THEN NotFound
    ELSE IF Contains(Lower(stderr), S_error_reading_manifest) THEN NotFound
    ELSE IF Contains(Lower(stderr), S_repository_not_found) THEN NotFound
    ELSE IF Contains(Lower(stderr), S_unauthorized) THEN Failed(S_unauthorized_access \o stderr)
    ELSE IF Contains(Lower(stderr), S_forbidden) THEN Failed(S_access_forbidden \o stderr)
    ELSE IF Len(Strip(stderr)) = 0 THEN NotFound
    ELSE Failed(S_unexpected_error \o stderr)

\* pieces of the stderr text of an inspect run, and the texts made of up to two of them
StderrPieces == { S_manifest_unknown,
                  <<"E","r","r","o","r"," ","R","e","a","d","i","n","g"," ","M","a","n","i","f","e","s","t">>,
                  S_repository_not_found, S_unauthorized,
                  <<"F","o","r","b","i","d","d","e","n">>,
                  S_timed_out, <<" ">>, Newline }
StderrTexts == {<<>>} \cup StderrPieces \cup { a \o b : a, b \in StderrPieces }

\* image_exists: the classification of what _run_command returned
ImageExists ==
    /\ rpc = "returned"
    /\ outs = <<>>
    /\ outs' = <<image_exists(result.success, result.stderr)>>
    /\ UNCHANGED <<rvars, given, stale, gm, tvars>>

\* ------------------------------------------------------ specifications
\* One tracker with a short heartbeat interval on a fresh registry, every
\* statement of update_progress and of the heartbeat thread a step of its
\* own.  The other tracker objects are not used.
TInit ==
    /\ RegistryInit
    /\ RunIdle
    /\ \E c \in TrackerConfigs, iv \in 1..MaxInterval :
         trk = [t \in Trackers |-> IF t = 1 THEN InitTracker(c, iv)
                                   ELSE InitTracker(c, DefaultHeartbeatInterval)]
    /\ tpc = [t \in Trackers |-> IF t = 1 THEN "new" ELSE "unused"]

TNext ==
    \/ Tick
    \/ \E t \in Trackers :
         \/ Enter(t) \/ UpdateStep(t) \/ UpdatePercent(t) \/ UpdateTime(t)
         \/ AddBlob(t) \/ BodyEnd(t) \/ StopFlag(t) \/ Join(t) \/ Remove(t)
         \/ RecordEnd(t)
         \/ HbLoop(t) \/ HbWake(t) \/ HbBegin(t) \/ HbDetailed(t) \/ HbDuration(t)
         \/ HbSpeed(t) \/ HbProgress(t) \/ HbStale(t)

SpecTracker == TInit /\ [][TNext]_vars

\* NumTrackers trackers, as the wrapper builds them (heartbeat_interval is
\* the default, 10), opened and closed in any interleaving on one registry;
\* a body returns or raises.  Time runs to MaxTime < 10, so that no
\* time.sleep(10) of a heartbeat thread returns: HbWake and the steps of
\* update_heartbeat_metrics are never enabled and are left out of the
\* next-state relation.  The bodies call neither update_progress nor
\* add_blob (as those of inspect, delete and manifest_digest): SpecTracker
\* has these calls.
SInit ==
    /\ RegistryInit
    /\ RunIdle
    /\ trk \in [Trackers -> { InitTracker(c, DefaultHeartbeatInterval) : c \in TrackerConfigs }]
    /\ tpc = [t \in Trackers |-> "new"]

SNext ==
    \/ Tick
    \/ \E t \in Trackers :
         \/ Enter(t) \/ BodyEnd(t) \/ StopFlag(t) \/ Join(t) \/ Remove(t)
         \/ RecordEnd(t)
         \/ HbLoop(t)

SpecScopes == SInit /\ [][SNext]_vars

\* One tracker as the wrapper builds it (heartbeat_interval 10, so that no
\* heartbeat tick happens before MaxTime) whose body calls add_blob, as the
\* body of copy does.
BInit ==
    /\ RegistryInit
    /\ RunIdle
    /\ \E c \in TrackerConfigs :
         trk = [t \in Trackers |-> InitTracker(c, DefaultHeartbeatInterval)]
    /\ tpc = [t \in Trackers |-> IF t = 1 THEN "new" ELSE "unused"]

BNext ==
    \/ Tick
    \/ \E t \in Trackers :
         \/ Enter(t) \/ AddBlob(t) \/ BodyEnd(t) \/ StopFlag(t) \/ Join(t) \/ Remove(t)
         \/ RecordEnd(t)
         \/ HbLoop(t)

SpecBlobs == BInit /\ [][BNext]_vars

\* One call of _run_command on any input of RunInputs, the child, the
\* monitor thread and the calling thread interleaved.  No tracker is used.
RInit ==
    /\ RegistryInit
    /\ trk = [t \in Trackers |-> InitTracker(CHOOSE c \in TrackerConfigs : c.operation = "copy",
                                             DefaultHeartbeatInterval)]
    /\ tpc = [t \in Trackers |-> "unused"]
    /\ rin \in RunInputs
    /\ rpc = "start"
    /\ proc = NoProcess
    /\ pipe = <<>>
    /\ rd = NoReader
    /\ stderrClosed = FALSE
    /\ errcap = <<>>
    /\ parser = NewParser
    /\ cbs = <<>>
    /\ result = NoResult
    /\ given = <<>>
    /\ outs = <<>>
    /\ stale = NoStale
    /\ gm = NoGlobal

RNext ==
    \/ Popen \/ PopenFails \/ ChildWrite \/ ChildExit
    \/ MonitorRead \/ MonitorLine
    \/ CommunicateRead \/ CommunicateReturns \/ CommunicateTimesOut \/ TimeoutExpired
    \/ JoinMonitor \/ Mark \/ Finish

SpecRun == RInit /\ [][RNext]_vars

\* ------------------------------------------- inspect, delete, manifest_digest
\* "with OperationTracker(...): return self._run_command(...)": the body of
\* the scope is one call of _run_command
OpCall(t) ==
    /\ tpc[t] = "body"
    /\ rpc = "idle"
    /\ rpc' = "start"
    /\ UNCHANGED <<rin, proc, pipe, rd, stderrClosed, errcap, parser, cbs, result, tvars, pvars>>

\* _run_command has returned its triple and the body returns it: the with
\* statement calls __exit__ without an exception
OpReturn(t) ==
    /\ tpc[t] = "body"
    /\ rpc = "returned"
    /\ pend' = [pend EXCEPT ![t].exc = NoExc]
    /\ tpc' = [tpc EXCEPT ![t] = "exit"]
    /\ UNCHANGED <<now, removeRaises, active, counters, series, trk, hpc, hbl, nEvents>>
    /\ UNCHANGED <<rvars, pvars>>

\* the calls made without a progress callback on a child that writes only
\* error lines
OperationInputs ==
    { i \in RunInputs : i.cb = "none" /\ \A k \in 1..Len(i.lines) : i.lines[k] = 2 }

\* One wrapper operation without progress wrapping (inspect) with metrics
\* enabled, on any input of OperationInputs.
OInit ==
    /\ RegistryInit
    /\ trk = [t \in Trackers |->
                InitTracker(CHOOSE c \in TrackerConfigs : c.operation = "inspect",
                            DefaultHeartbeatInterval)]
    /\ tpc = [t \in Trackers |-> IF t = 1 THEN "new" ELSE "unused"]
    /\ rin \in OperationInputs
    /\ rpc = "idle"
    /\ proc = NoProcess
    /\ pipe = <<>>
    /\ rd = NoReader
    /\ stderrClosed = FALSE
    /\ errcap = <<>>
    /\ parser = NewParser
    /\ cbs = <<>>
    /\ result = NoResult
    /\ given = <<>>
    /\ outs = <<>>
    /\ stale = NoStale
    /\ gm = NoGlobal

ONext ==
    \/ Tick
    \/ \E t \in Trackers :
         \/ Enter(t) \/ OpCall(t) \/ OpReturn(t)
         \/ StopFlag(t) \/ Join(t) \/ Remove(t) \/ RecordEnd(t) \/ HbLoop(t)
    \/ Popen \/ PopenFails \/ ChildWrite \/ ChildExit
    \/ MonitorRead \/ MonitorLine
    \/ CommunicateRead \/ CommunicateReturns \/ CommunicateTimesOut \/ TimeoutExpired
    \/ JoinMonitor \/ Mark \/ Finish

SpecOperation == OInit /\ [][ONext]_vars

\* A fresh parser given up to MaxFeed lines of ParserLines.
PInit ==
    /\ RegistryInit
    /\ removeRaises = FALSE
    /\ trk = [t \in Trackers |-> InitTracker(CHOOSE c \in TrackerConfigs : c.operation = "copy",
                                             DefaultHeartbeatInterval)]
    /\ tpc = [t \in Trackers |-> "unused"]
    /\ RunIdle

PNext == Feed

SpecParser == PInit /\ [][PNext]_vars

\* A fresh parser given up to MaxFeed lines of DigestLines.
DInit == PInit

DNext == FeedDigest

SpecDigests == DInit /\ [][DNext]_vars

\* The percentage functions applied once to any snapshot of Snapshots.
QInit ==
    /\ RegistryInit
    /\ removeRaises = FALSE
    /\ trk = [t \in Trackers |-> InitTracker(CHOOSE c \in TrackerConfigs : c.operation = "copy",
                                             DefaultHeartbeatInterval)]
    /\ tpc = [t \in Trackers |-> "unused"]
    /\ rin = [lines |-> <<>>, code |-> 0, out |-> <<>>, cb |-> "none",
              timeout |-> FALSE, spawn |-> NoSpawnError]
    /\ rpc = "idle"
    /\ proc = NoProcess
    /\ pipe = <<>>
    /\ rd = NoReader
    /\ stderrClosed = FALSE
    /\ errcap = <<>>
    /\ parser \in Snapshots
    /\ cbs = <<>>
    /\ result = NoResult
    /\ given = <<>>
    /\ outs = <<>>
    /\ stale = NoStale
    /\ gm = NoGlobal

QNext == Estimate

SpecPercent == QInit /\ [][QNext]_vars

\* time passes beyond MaxTime: the clock reading stays at MaxTime and the
\* recorded times move back by one (a time that would leave the window
\* stays at its start), so that a sleep that began at MaxTime still ends
Earlier(x) == IF x = NoTime THEN NoTime ELSE IF x > 1 THEN x - 1 ELSE 1

LateTick ==
    /\ now = MaxTime
    /\ trk' = [t \in Trackers |->
                 [trk[t] EXCEPT !.start_time = Earlier(@), !.last_progress_time = Earlier(@)]]
    /\ hbl' = [t \in Trackers |->
                 [hbl[t] EXCEPT !.wake = Earlier(@), !.current_time = Earlier(@)]]
    /\ pend' = [t \in Trackers |-> [pend[t] EXCEPT !.deadline = Earlier(@)]]
    /\ UNCHANGED <<now, removeRaises, active, counters, series, tpc, hpc, nEvents>>
    /\ UNCHANGED <<rvars, pvars>>

\* the steps of tracker t's heartbeat thread
Heartbeat(t) ==
    \/ HbLoop(t) \/ HbWake(t) \/ HbBegin(t) \/ HbDetailed(t) \/ HbDuration(t)
    \/ HbSpeed(t) \/ HbProgress(t) \/ HbStale(t)

\* One tracker whose scope is entered and stays open: the body never ends
\* and never calls update_progress.  Time passes for ever, and the
\* heartbeat thread, a daemon thread of the interpreter, is scheduled
\* whenever it can take a step.
LInit ==
    /\ RegistryInit
    /\ RunIdle
    /\ \E c \in TrackerConfigs, iv \in 1..MaxInterval :
         trk = [t \in Trackers |-> IF t = 1 THEN InitTracker(c, iv)
                                   ELSE InitTracker(c, DefaultHeartbeatInterval)]
    /\ tpc = [t \in Trackers |-> IF t = 1 THEN "new" ELSE "unused"]

LNext ==
    \/ Tick \/ LateTick
    \/ \E t \in Trackers : Enter(t) \/ Heartbeat(t)

SpecAlive ==
    /\ LInit
    /\ [][LNext]_vars
    /\ WF_vars(Tick \/ LateTick)
    /\ \A t \in Trackers : WF_vars(Heartbeat(t))

\* One wrapper operation (inspect) with metrics enabled and a deadline.
\* The calling thread is scheduled whenever it can take a step, and time
\* passes for ever; nothing is assumed of the child process, of the
\* monitor thread or of the heartbeat thread, each of which may stop for
\* good at any point.  The heartbeat thread is as the wrapper builds it: it
\* sleeps for 10 seconds and only its loop test and the start of its sleep
\* are steps here.
DeadlineInputs == { i \in OperationInputs : i.timeout /\ Len(i.lines) <= 1 }

\* the steps of the calling thread; in communicate() the child's exit or
\* the deadline ends the wait
Caller(t) ==
    \/ Enter(t) \/ OpCall(t) \/ Popen \/ PopenFails
    \/ CommunicateReturns \/ CommunicateTimesOut \/ TimeoutExpired
    \/ JoinMonitor \/ Mark \/ Finish
    \/ OpReturn(t) \/ StopFlag(t) \/ Join(t) \/ Remove(t) \/ RecordEnd(t)

WInit ==
    /\ RegistryInit
    /\ removeRaises = FALSE
    /\ trk = [t \in Trackers |->
                InitTracker(CHOOSE c \in TrackerConfigs : c.operation = "inspect",
                            DefaultHeartbeatInterval)]
    /\ tpc = [t \in Trackers |-> IF t = 1 THEN "new" ELSE "unused"]
    /\ rin \in DeadlineInputs
    /\ rpc = "idle"
    /\ proc = NoProcess
    /\ pipe = <<>>
    /\ rd = NoReader
    /\ stderrClosed = FALSE
    /\ errcap = <<>>
    /\ parser = NewParser
    /\ cbs = <<>>
    /\ result = NoResult
    /\ given = <<>>
    /\ outs = <<>>
    /\ stale = NoStale
    /\ gm = NoGlobal

WNext ==
    \/ Tick \/ LateTick
    \/ \E t \in Trackers : Caller(t) \/ HbLoop(t)
    \/ ChildWrite \/ ChildExit \/ MonitorRead \/ MonitorLine \/ CommunicateRead

SpecReturns ==
    /\ WInit
    /\ [][WNext]_vars
    /\ WF_vars(Tick \/ LateTick)
    /\ WF_vars(Caller(1))

\* One tracker with a heartbeat interval of one second whose body may call
\* add_blob and never calls update_progress; the scope closes when the body
\* ends.
VInit ==
    /\ RegistryInit
    /\ RunIdle
    /\ \E c \in TrackerConfigs :
         trk = [t \in Trackers |-> IF t = 1 THEN InitTracker(c, 1)
                                   ELSE InitTracker(c, DefaultHeartbeatInterval)]
    /\ tpc = [t \in Trackers |-> IF t = 1 THEN "new" ELSE "unused"]

VNext ==
    \/ Tick
    \/ \E t \in Trackers :
         \/ Enter(t) \/ AddBlob(t) \/ BodyEnd(t) \/ StopFlag(t) \/ Join(t) \/ Remove(t)
         \/ RecordEnd(t)
         \/ Heartbeat(t)

SpecSpeed == VInit /\ [][VNext]_vars

\* Threads that call get_metrics and reset_metrics, each statement of
\* get_metrics a step.
GInit == PInit

GNext == \E th \in Threads : GetTest(th) \/ GetCreate(th) \/ GetReturn(th) \/ ResetMetrics(th)

SpecGlobal == GInit /\ [][GNext]_vars

\* image_exists on any triple its _run_command call can have returned: a
\* success flag and a stderr text of StderrTexts.
EInit ==
    /\ RegistryInit
    /\ removeRaises = FALSE
    /\ trk = [t \in Trackers |-> InitTracker(CHOOSE c \in TrackerConfigs : c.operation = "inspect",
                                             DefaultHeartbeatInterval)]
    /\ tpc = [t \in Trackers |-> "unused"]
    /\ \E i \in DeadlineInputs : rin = i /\ i.lines = <<>> /\ i.code = 0 /\ i.spawn = NoSpawnError
    /\ rpc = "returned"
    /\ proc = NoProcess
    /\ pipe = <<>>
    /\ rd = NoReader
    /\ stderrClosed = FALSE
    /\ errcap = <<>>
    /\ parser = NewParser
    /\ cbs = <<>>
    /\ \E success \in BOOLEAN, text \in StderrTexts :
         result = [via |-> "exit", success |-> success, stdout |-> <<>>, stderr |-> text,
                   snapshot |-> NoSnapshot]
    /\ given = <<>>
    /\ outs = <<>>
    /\ stale = NoStale
    /\ gm = NoGlobal

ENext == ImageExists

SpecExists == EInit /\ [][ENext]_vars

\* One copy tracker with a heartbeat interval of one second whose scope
\* stays open; its body calls update_progress, every statement of which is
\* a step, as is every statement of the heartbeat thread.
KInit ==
    /\ RegistryInit
    /\ removeRaises = FALSE
    /\ RunIdle
    /\ \E c \in { d \in TrackerConfigs : d.operation = "copy" } :
         trk = [t \in Trackers |-> IF t = 1 THEN InitTracker(c, 1)
                                   ELSE InitTracker(c, DefaultHeartbeatInterval)]
    /\ tpc = [t \in Trackers |-> IF t = 1 THEN "new" ELSE "unused"]

KNext ==
    \/ Tick
    \/ \E t \in Trackers :
         \/ Enter(t) \/ UpdateStep(t) \/ UpdatePercent(t) \/ UpdateTime(t)
         \/ Heartbeat(t)

SpecTicks == KInit /\ [][KNext]_vars

\* One copy with metrics enabled on any input of CopyInputs, from the
\* entry of the tracker scope to the end of the with body.  The heartbeat
\* thread sleeps throughout and the close of the scope is left to the
\* specifications above.
CInit ==
    /\ RegistryInit
    /\ removeRaises = FALSE
    /\ trk = [t \in Trackers |->
                InitTracker(CHOOSE c \in TrackerConfigs : c.operation = "copy",
                            DefaultHeartbeatInterval)]
    /\ tpc = [t \in Trackers |-> IF t = 1 THEN "new" ELSE "unused"]
    /\ rin \in CopyInputs
    /\ rpc = "idle"
    /\ proc = NoProcess
    /\ pipe = <<>>
    /\ rd = NoReader
    /\ stderrClosed = FALSE
    /\ errcap = <<>>
    /\ parser = NewParser
    /\ cbs = <<>>
    /\ result = NoResult
    /\ given = <<>>
    /\ outs = <<>>
    /\ stale = NoStale
    /\ gm = NoGlobal

CNext ==
    \/ \E t \in Trackers : Enter(t) \/ OpCall(t) \/ CopyLoopBegin(t) \/ CopyLoopStep(t)
    \/ Popen \/ ChildWrite \/ ChildExit
    \/ MonitorRead \/ CopyMonitorLine
    \/ CommunicateRead \/ CommunicateReturns \/ CommunicateTimesOut \/ TimeoutExpired
    \/ JoinMonitor \/ Mark \/ CopyFinish

SpecCopy == CInit /\ [][CNext]_vars

\* Two trackers of the same operation on the same source and destination
\* (two copies of one image running at once).  The first has a short
\* heartbeat interval, so that its heartbeat publishes within MaxTime; the
\* second is as the wrapper builds it.  Neither body calls update_progress
\* or add_blob.
HInit ==
    /\ RegistryInit
    /\ RunIdle
    /\ \E c \in { d \in TrackerConfigs : d.operation = "copy" } :
         trk = [t \in Trackers |-> IF t = 1 THEN InitTracker(c, 1)
                                   ELSE InitTracker(c, DefaultHeartbeatInterval)]
    /\ tpc = [t \in Trackers |-> IF t \in {1, 2} THEN "new" ELSE "unused"]

HNext ==
    \/ Tick
    \/ \E t \in Trackers :
         \/ Enter(t) \/ BodyEnd(t) \/ StopFlag(t) \/ Join(t) \/ Remove(t)
         \/ RecordEnd(t)
         \/ HbLoop(t) \/ HbWake(t) \/ HbBegin(t) \/ HbDetailed(t) \/ HbDuration(t)
         \/ HbSpeed(t) \/ HbProgress(t) \/ HbStale(t)

SpecShared == HInit /\ [][HNext]_vars

\* Two calls of _run_command, one after the other, on one wrapper: the
\* first on an input without callback whose child can be started, the
\* second on SecondInput.
SequenceInputs == { i \in RunInputs : i.cb = "none" /\ i.spawn = NoSpawnError }

XInit ==
    /\ RegistryInit
    /\ trk = [t \in Trackers |-> InitTracker(CHOOSE c \in TrackerConfigs : c.operation = "copy",
                                             DefaultHeartbeatInterval)]
    /\ tpc = [t \in Trackers |-> "unused"]
    /\ rin \in SequenceInputs
    /\ rpc = "start"
    /\ proc = NoProcess
    /\ pipe = <<>>
    /\ rd = NoReader
    /\ stderrClosed = FALSE
    /\ errcap = <<>>
    /\ parser = NewParser
    /\ cbs = <<>>
    /\ result = NoResult
    /\ given = <<>>
    /\ outs = <<>>
    /\ stale = NoStale
    /\ gm = NoGlobal

XNext ==
    \/ Popen \/ ChildWrite \/ ChildExit
    \/ MonitorRead \/ MonitorLine
    \/ CommunicateRead \/ CommunicateReturns \/ CommunicateTimesOut \/ TimeoutExpired
    \/ JoinMonitor \/ Mark \/ Finish
    \/ NextCommand \/ StaleRead \/ StaleLine

SpecSequence == XInit /\ [][XNext]_vars

\* ================================================================ claims

\* the positions of a tracker's thread between __enter__ and the end of __exit__
OpenPcs == {"body", "up_percent", "up_time", "exit", "join", "remove", "end"}

OpenScopes(k) == { t \in Trackers : trk[t].operation = k /\ tpc[t] \in OpenPcs }

\* C1: in every reachable state the active-operations gauge of each
\* operation kind equals the number of tracker scopes of that kind that have
\* been entered and whose __exit__ has not yet recorded the end, whatever the
\* interleaving of the scopes and whether a body returned or raised.
C1_ActiveGaugeCountsOpenScopes ==
    \A k \in Kinds : active[k] = Cardinality(OpenScopes(k))

\* C1 witness: two scopes of one kind were open together, one has closed
\* after its body raised, the other is still open, and the gauge reads 1.
C1_Witness ==
    \E t1 \in Trackers, t2 \in Trackers :
        /\ t1 # t2
        /\ trk[t1].operation = trk[t2].operation
        /\ tpc[t1] = "closed" /\ pend[t1].exc # NoExc
        /\ tpc[t2] \in OpenPcs
        /\ active[trk[t1].operation] = 1

\* C2: after a tracker scope has closed, the registry holds no gauge series
\* that a heartbeat tick of that tracker created.  Stated here for the runs
\* most favourable to it: the heartbeat thread had ended when join returned,
\* and remove() does not raise on a missing label set.
C2_NoSeriesLeftAfterClose ==
    \A t \in Trackers :
        (tpc[t] = "closed" /\ pend[t].joined /\ ~removeRaises)
            => \A e \in series : e.by # t

\* C3: when __exit__ has returned, the tracker's heartbeat thread has ended.
\* Stated in the weaker form that no closed tracker has a heartbeat thread
\* still inside a time.sleep that is not over.
C3_NoHeartbeatAsleepAfterClose ==
    \A t \in Trackers :
        tpc[t] = "closed" => ~(hpc[t] = "sleep" /\ hbl[t].wake > now)

\* the series carrying tracker t's labels
OwnSeries(S, t) ==
    { e \in S : e.op = trk[t].operation /\ e.src = SrcShort(t) /\ e.dst = DstShort(t) }

\* C4: once stop_heartbeat has removed the operation's series, no heartbeat
\* tick of that tracker sets or re-creates a series of the operation.
C4_NoWriteAfterRemoval ==
    [][\A t \in Trackers :
          tpc[t] \in {"end", "closed"} => OwnSeries(series', t) \subseteq OwnSeries(series, t)]_vars

\* C5: the (current step, last percentage, last-update time) that one
\* update_heartbeat_metrics call publishes were written by one and the same
\* update_progress call (or are the initial values).
C5_TickPublishesOneEvent ==
    \A t \in Trackers :
        hbl[t].published =>
            /\ hbl[t].step_ev = hbl[t].percent_ev
            /\ hbl[t].percent_ev = hbl[t].time_ev

\* the staleness an observer reads as "near zero": less than one time unit
NearZero(val) == val[1] <= 0 /\ val[1] >= 0

\* C6: while no progress event has arrived, a heartbeat tick never lowers a
\* published staleness; and in the state right after update_progress has
\* returned, every staleness series of the operation reads near zero.
C6_StalenessResetsOnProgress ==
    [][\A t \in Trackers :
          /\ (hpc[t] = "u_stale" /\ nEvents[t] = 0) =>
                \A e \in OwnSeries(series, t), f \in OwnSeries(series', t) :
                    (e.g = "stale" /\ f.g = "stale" /\ e.step = f.step) => f.val[1] >= e.val[1]
          /\ (tpc[t] = "up_time" /\ tpc'[t] = "body") =>
                \A f \in OwnSeries(series', t) : f.g = "stale" => NearZero(f.val)]_vars

\* the first half of C6 alone
C6_StalenessMonotoneWithoutProgress ==
    [][\A t \in Trackers :
          (hpc[t] = "u_stale" /\ nEvents[t] = 0) =>
                \A e \in OwnSeries(series, t), f \in OwnSeries(series', t) :
                    (e.g = "stale" /\ f.g = "stale" /\ e.step = f.step) => f.val[1] >= e.val[1]]_vars

\* C7: when communicate() has raised TimeoutExpired, the next step of the
\* call is its return, the result is exactly (False, "", "Operation timed
\* out"), and in the state in which it returns the child is not running: a
\* child that was running has been killed.
C7_TimeoutKillsChildAndReturnsFixedMessage ==
    [][(rpc = "timeout" /\ rpc' # "timeout") =>
          /\ rpc' = "returned"
          /\ result'.success = FALSE
          /\ result'.stdout = <<>>
          /\ result'.stderr = S_timed_out
          /\ proc'.state \in {"killed", "exited"}
          /\ (proc.state = "running" => proc'.state = "killed")]_vars

\* C7 witness: the call has returned the timeout result, the child was
\* killed, and what communicate() had already read of the child's stderr is
\* not in the result.
C7_Witness ==
    /\ rpc = "returned"
    /\ result.via = "timeout"
    /\ proc.state = "killed"
    /\ errcap # <<>>
    /\ result.stdout = <<>>
    /\ result.stderr = S_timed_out

\* C8: when the parser has captured the text of an error line and the child
\* exits with a non-zero status, the terminal snapshot's error is the
\* captured text.
C8_ParsedErrorTakesPrecedence ==
    (/\ rpc = "returned"
     /\ result.via = "exit"
     /\ proc.returncode # 0
     /\ rd.pc = "done"
     /\ rd.captured # <<>>)
        => result.snapshot.error = rd.captured

\* C9: when the child exits with a non-zero code c and no error line was
\* parsed, the call returns success = false, the terminal snapshot's error is
\* "Process exited with code c", completed is false, and the final callback,
\* if there is one, received that snapshot.
C9_NonzeroExitSynthesizesError ==
    (/\ rpc = "returned"
     /\ result.via \in {"exit", "exception"}
     /\ proc.returncode \notin {NoCode, 0}
     /\ rd.captured = <<>>)
        => /\ result.success = FALSE
           /\ result.snapshot.error = S_exited_with_code \o IntToStr(proc.returncode)
           /\ result.snapshot.completed = FALSE
           /\ rin.cb # "none" =>
                 \E i \in 1..Len(cbs) : cbs[i] = [final |-> TRUE, seen |-> result.snapshot]

\* C9 witness: a child that wrote nothing exited with code 1, the call has
\* returned, and the callback was called once, with the synthesized error.
C9_Witness ==
    /\ rpc = "returned"
    /\ result.via = "exit"
    /\ rin.lines = <<>>
    /\ proc.returncode = 1
    /\ rin.cb = "returns"
    /\ Len(cbs) = 1
    /\ cbs[1].seen.error = S_exited_with_code \o <<"1">>
    /\ result.success = FALSE

\* C10: when Popen raises, the call returns (False, "", str(e)) in its
\* first step; no monitor thread is started, no callback is called and no
\* child exists.
C10_SpawnFailureReturnsErrorText ==
    (rin.spawn # NoSpawnError /\ rpc # "start")
        => /\ rpc = "returned"
           /\ result.success = FALSE
           /\ result.stdout = <<>>
           /\ result.stderr = StrOSError(rin.spawn)
           /\ Len(result.stderr) > 0
           /\ rd.pc = "off"
           /\ cbs = <<>>
           /\ proc.state = "none"

\* C10 witness: a call with a callback has returned after Popen raised
\* FileNotFoundError.
C10_Witness ==
    /\ rpc = "returned"
    /\ rin.spawn \in SpawnErrors
    /\ rin.cb = "returns"
    /\ result.via = "exception"
    /\ result.stderr = StrOSError(rin.spawn)

\* the lines of ls that parse_line is given (monitor_stderr skips blank
\* lines), and those for which parse_line returns the progress
RECURSIVE SelectLines(_, _)
SelectLines(ls, keep) ==
    IF ls = <<>> THEN <<>>
    ELSE (IF Head(ls) \in keep THEN <<Head(ls)>> ELSE <<>>) \o SelectLines(Tail(ls), keep)
NonBlankLines == { i \in LineIds : Len(Strip(StderrLines[i])) > 0 }
EventLines == { i \in LineIds : parse_line(NewParser, StderrLines[i]).event }

\* C11: when a run has ended by process exit and the monitor thread has
\* read to the end of the stream (the callback, if any, does not raise), the
\* lines given to parse_line are the non-blank lines the child wrote, each
\* once, and the callback was called for each line that is a progress event.
C11_EveryLineFedOnce ==
    (/\ rpc = "returned"
     /\ result.via = "exit"
     /\ rin.cb # "raises"
     /\ rd.pc = "done")
        => /\ rd.fed = SelectLines(rin.lines, NonBlankLines)
           /\ rin.cb = "returns" => rd.called = SelectLines(rin.lines, EventLines)

Finals == { i \in 1..Len(cbs) : cbs[i].final }

\* C12: when a run with a callback has ended by process exit, exactly one
\* final callback was made and it is the last call of the run, in this
\* state and in every later one.
C12_FinalCallbackIsLast ==
    (/\ rpc = "returned"
     /\ result.via = "exit"
     /\ rin.cb = "returns")
        => /\ Cardinality(Finals) = 1
           /\ cbs[Len(cbs)].final

\* s is t with some elements left out
RECURSIVE IsSubseq(_, _)
IsSubseq(s, t) ==
    IF s = <<>> THEN TRUE
    ELSE IF t = <<>> THEN FALSE
    ELSE IF Head(s) = Head(t) THEN IsSubseq(Tail(s), Tail(t))
    ELSE IsSubseq(s, Tail(t))

\* the lines of the per-line calls recorded in cbs
PerLineCalls == SelectSeq(cbs, LAMBDA c : ~c.final)

\* C13: the per-line callbacks are made one at a time by the monitor thread,
\* for lines in the order in which the child wrote them: the lines called
\* for are the child's lines with some left out, and the i-th call sees the
\* step of the i-th of them.
C13_CallbacksInEmissionOrder ==
    /\ IsSubseq(rd.called, rin.lines)
    /\ Len(PerLineCalls) = Len(rd.called)
    /\ \A i \in 1..Len(rd.called) :
          PerLineCalls[i].seen.current_step =
              parse_line(NewParser, StderrLines[rd.called[i]]).parser.progress.current_step

\* C13 witness: the child wrote a progress line and then an error line, and
\* the callback was called for the first and then for the second.
C13_Witness ==
    /\ rin.lines = <<1, 2>>
    /\ rd.called = <<1, 2>>
    /\ Len(PerLineCalls) = 2
    /\ PerLineCalls[1].seen.current_step = "getting_signatures"
    /\ PerLineCalls[2].seen.current_step = "error"

\* the step in which tracker t's __exit__ records the end of the operation
Closes(t) == tpc[t] = "end" /\ tpc'[t] = "closed"

\* C14: when the body of a scope raised an exception of kind K, the close of
\* the scope adds exactly one to the operation counter of (kind, "error") and
\* to the error counter of (kind, K), leaves (kind, "success") as it was, and
\* the exception K leaves the with statement.
C14_RaisingBodyCountsOneError ==
    [][\A t \in Trackers :
          (Closes(t) /\ pend[t].exc # NoExc) =>
              LET op == trk[t].operation IN
              /\ operations_total'[<<op, "error">>] = operations_total[<<op, "error">>] + 1
              /\ operations_total'[<<op, "success">>] = operations_total[<<op, "success">>]
              /\ operation_errors_total'[<<op, pend[t].exc>>] =
                     operation_errors_total[<<op, pend[t].exc>>] + 1
              /\ pend'[t].raised = pend[t].exc]_vars

\* C14 witness: a scope whose body raised ValueError has closed; one error
\* is counted for its operation and ValueError has left the with statement.
C14_Witness ==
    \E t \in Trackers :
        /\ tpc[t] = "closed"
        /\ pend[t].exc = "ValueError"
        /\ pend[t].raised = "ValueError"
        /\ operations_total[<<trk[t].operation, "error">>] = 1
        /\ operations_total[<<trk[t].operation, "success">>] = 0
        /\ operation_errors_total[<<trk[t].operation, "ValueError">>] = 1

AddsBlob(t) == pend'[t].added = pend[t].added + 1

C15_OutcomeFollowsCoordinator ==
    \A t \in Trackers :
        tpc[t] = "closed" =>
            LET op == trk[t].operation IN
            IF result.success
            THEN /\ operations_total[<<op, "success">>] = 1
                 /\ operations_total[<<op, "error">>] = 0
            ELSE /\ operations_total[<<op, "success">>] = 0
                 /\ operations_total[<<op, "error">>] = 1

\* a percentage p lies in [lo, hi]
PercentBetween(p, lo, hi) == lo * p[2] <= p[1] /\ p[1] <= hi * p[2]

\* C18: a fresh parser given 'Getting image source signatures', 'Copying
\* blob sha256:<64 hex> (1048576 bytes)', 'Writing manifest to image
\* destination', 'Storing signatures' in that order ends with step
\* storing_signatures, manifest_written and signatures_stored true, exactly
\* one blob, of size 1048576 and status copying, and the percentages after
\* the four lines were 10, a value in [20, 70], 90 and 95.
C18_CopyScenario ==
    given = <<1, 2, 5, 6>> =>
        /\ parser.progress.current_step = "storing_signatures"
        /\ parser.progress.manifest_written
        /\ parser.progress.signatures_stored
        /\ Cardinality(parser.blobs) = 1
        /\ \A b \in parser.blobs :
              b.sha256 = Digest_a /\ b.size = 1048576 /\ b.status = "copying"
        /\ \A i \in 1..4 : outs[i].event /\ outs[i].percent = outs[i].percent_fn
        /\ outs[1].percent = Percent(10)
        /\ PercentBetween(outs[2].percent, 20, 70)
        /\ outs[3].percent = Percent(90)
        /\ outs[4].percent = Percent(95)

\* C18 witness: the four lines were given and the estimate after the blob
\* line was 45.
C18_Witness ==
    /\ given = <<1, 2, 5, 6>>
    /\ outs[2].percent = <<90, 2>>
    /\ parser.progress.current_step = "storing_signatures"

\* the lines of ParserLines that match no pattern: the empty line, a
\* whitespace-only line, a blob line whose digest is not 64 of [a-f0-9], a
\* recognized text after other text, and 'Error:' without a message
UnrecognizedLines == {8, 9, 10, 11, 12}

\* C19: given a line that matches no pattern, parse_line returns no event
\* and leaves the snapshot and the blob registry as they were, from any
\* parser state.
C19_UnrecognizedLineChangesNothing ==
    [][\A id \in UnrecognizedLines :
          given' = Append(given, id) =>
              /\ parser' = parser
              /\ outs'[Len(outs')].event = FALSE]_vars

\* C19 witness: a parser that holds a blob was given the blob line with a
\* malformed digest; it returned no event and the blob is still the only one.
C19_Witness ==
    /\ given = <<2, 10>>
    /\ outs[2].event = FALSE
    /\ Cardinality(parser.blobs) = 1
    /\ parser.progress.current_step = "copying_blob"

\* C20: whenever the snapshot's error is set, the method and the
\* module-level function return 0, whatever the step and the completed flag.
C20_ErrorMeansZeroPercent ==
    parser.progress.error # <<>> =>
        /\ parser_get_progress_percentage(parser) = Percent(0)
        /\ get_progress_percentage(parser.progress, parser.blobs) = Percent(0)

\* C20 witness: the child wrote an error line and exited with status 0: the
\* snapshot of the returned call has an error and is completed.
C20_Witness ==
    /\ rpc = "returned"
    /\ proc.returncode = 0
    /\ parser.progress.error = S_manifest_unknown
    /\ parser.progress.completed
    /\ parser.progress.current_step = "completed"

\* p <= q for percentages
PercentLE(p, q) == p[1] * q[2] <= q[1] * p[2]

\* the estimate of the current snapshot with another step, or another number of blobs
EstimateAt(step, completed) ==
    get_progress_percentage([parser.progress EXCEPT !.current_step = step,
                                                    !.completed = completed], parser.blobs)
EstimateWithBlobs(n) ==
    get_progress_percentage([parser.progress EXCEPT !.current_step = "copying_blob"], BlobSet(n))

\* C21: for an error-free snapshot the percentage lies in [0, 100]; it is
\* 100 when completed, and otherwise 10, 75, 90 and 95 in the steps
\* getting_signatures, copying_config, writing_manifest and
\* storing_signatures, which does not decrease in that order; in
\* copying_blob with n blobs it is min(20 + 50n/(n+1), 70), which does not
\* decrease with n and is at most 70.
C21_PercentageValues ==
    (outs # <<>> /\ parser.progress.error = <<>>) =>
        LET pct == outs[1].percent
            step == parser.progress.current_step
            n == Cardinality(parser.blobs)
        IN  /\ pct = outs[1].percent_fn
            /\ PercentBetween(pct, 0, 100)
            /\ parser.progress.completed => pct = Percent(100)
            /\ ~parser.progress.completed =>
                  /\ step = "getting_signatures" => pct = Percent(10)
                  /\ step = "copying_config" => pct = Percent(75)
                  /\ step = "writing_manifest" => pct = Percent(90)
                  /\ step = "storing_signatures" => pct = Percent(95)
                  /\ step = "copying_blob" =>
                        /\ pct[1] * (n + 1) = (20 * (n + 1) + 50 * n) * pct[2]
                        /\ PercentLE(pct, Percent(70))
                        /\ \A m \in 0..n : PercentLE(EstimateWithBlobs(m), pct)
                  /\ PercentLE(EstimateAt("getting_signatures", FALSE), EstimateAt("copying_config", FALSE))
                  /\ PercentLE(EstimateAt("copying_config", FALSE), EstimateAt("writing_manifest", FALSE))
                  /\ PercentLE(EstimateAt("writing_manifest", FALSE), EstimateAt("storing_signatures", FALSE))
                  /\ PercentLE(EstimateAt("storing_signatures", FALSE), EstimateAt("completed", TRUE))

\* C21 witness: the estimate of an error-free snapshot in copying_blob with
\* three blobs is 20 + 150/4 = 57.5.
C21_Witness ==
    /\ outs # <<>>
    /\ parser.progress.error = <<>>
    /\ ~parser.progress.completed
    /\ parser.progress.current_step = "copying_blob"
    /\ Cardinality(parser.blobs) = 3
    /\ outs[1].percent = <<230, 4>>

\* the registry entries for a digest, and the size known for it (NoSize when none)
SizeOf(p, sha) ==
    IF BlobsWith(p, sha) = {} THEN NoSize ELSE (CHOOSE b \in BlobsWith(p, sha) : TRUE).size
LastGiven == given[Len(given)]

\* C22: the registry never holds two entries for one digest; and when a
\* digest is announced by a blob line without a size and then by a blob
\* line with a size, the registry holds exactly one entry for it, with the
\* size of the second line and the status of the latest line.
C22_OneEntryPerDigest ==
    /\ \A b, c \in parser.blobs : b.sha256 = c.sha256 => b = c
    /\ (Len(given) >= 2 /\ given[Len(given) - 1] = 1 /\ LastGiven \in {2, 3}) =>
          /\ Cardinality(BlobsWith(parser, Digest_a)) = 1
          /\ \A b \in BlobsWith(parser, Digest_a) :
                /\ b.size = IF LastGiven = 2 THEN 1048576 ELSE 5
                /\ b.status = "copying"

\* C22 witness: the digest was announced without a size, then with one.
C22_Witness ==
    /\ given = <<1, 2>>
    /\ Cardinality(BlobsWith(parser, Digest_a)) = 1
    /\ SizeOf(parser, Digest_a) = 1048576

\* C23: in every parser state the snapshot's current blob is none or is the
\* object the registry holds under its digest, also after a sighting that
\* replaced the entry.
C23_CurrentBlobIsInRegistry ==
    \/ parser.progress.current_blob = NoBlob
    \/ \E b \in parser.blobs :
          /\ b.id = parser.progress.current_blob
          /\ BlobsWith(parser, b.sha256) = {b}

\* C23 witness: a sized sighting replaced the entry of an unsized one, a
\* config line followed, and then the first digest was seen again; the
\* current blob is the replacing object.
C23_Witness ==
    /\ given = <<1, 2, 4, 1>>
    /\ parser.progress.current_blob = 2
    /\ \E b \in parser.blobs : b.id = 2 /\ b.sha256 = Digest_a

\* C24: the size recorded for a digest, once known, never decreases and is
\* never lost: after each line it is at least what it was before the line.
C24_SizeNeverDecreases ==
    [][\A b \in parser.blobs :
          b.size # NoSize => SizeOf(parser', b.sha256) >= b.size]_vars

\* lines of DigestLines whose digest token is too long, too short or not hexadecimal
MalformedLines == {5, 6, 7}

\* C25: a blob or config line whose digest token is not exactly 64
\* lowercase hexadecimal characters is a non-match: no event, no registry
\* entry, no step change.
C25_MalformedDigestIsNoMatch ==
    [][(given' # given /\ given'[Len(given')] \in MalformedLines) =>
          /\ parser' = parser
          /\ ~outs'[Len(outs')].event]_vars

\* the flags and the error of a snapshot
FlagsOf(p) == <<p.progress.manifest_written, p.progress.signatures_stored, p.progress.error>>

\* C26: from any state, a recognized line of ParserLines gives the step of
\* its kind and sets only the flag of its kind, whatever the step was
\* before: signatures line getting_signatures, blob line copying_blob,
\* config line copying_config, manifest line writing_manifest with
\* manifest_written, signature-store line storing_signatures with
\* signatures_stored, error line error with the text captured; a line that
\* two patterns match (the sized blob line) is handled by the first one,
\* which records the size.
C26_StepDependsOnlyOnLine ==
    [][given' # given =>
        LET id == given'[Len(given')]
            q == parser'.progress
            keeps(fields) == \A f \in fields : q[f] = parser.progress[f]
        IN  /\ id \in 1..7 => outs'[Len(outs')].event
            /\ id = 1 => /\ q.current_step = "getting_signatures"
                         /\ keeps({"manifest_written", "signatures_stored", "error", "current_blob"})
                         /\ parser'.blobs = parser.blobs
            /\ id \in {2, 3} => /\ q.current_step = "copying_blob"
                                /\ keeps({"manifest_written", "signatures_stored", "error"})
                                /\ q.current_blob = BlobId(parser', Digest_a)
            /\ id = 2 => SizeOf(parser', Digest_a) = 1048576
            /\ id = 4 => /\ q.current_step = "copying_config"
                         /\ keeps({"manifest_written", "signatures_stored", "error"})
                         /\ q.current_blob = BlobId(parser', Digest_b)
            /\ id = 5 => /\ q.current_step = "writing_manifest"
                         /\ q.manifest_written
                         /\ keeps({"signatures_stored", "error", "current_blob"})
                         /\ parser'.blobs = parser.blobs
            /\ id = 6 => /\ q.current_step = "storing_signatures"
                         /\ q.signatures_stored
                         /\ keeps({"manifest_written", "error", "current_blob"})
                         /\ parser'.blobs = parser.blobs
            /\ id = 7 => /\ q.current_step = "error"
                         /\ q.error = S_manifest_unknown
                         /\ keeps({"manifest_written", "signatures_stored", "current_blob"})
                         /\ parser'.blobs = parser.blobs]_vars

\* C26 witness: each of the steps error and storing_signatures was left by
\* a later recognized line; the sized blob line came after the error line.
C26_Witness ==
    /\ given = <<7, 2, 6, 5>>
    /\ parser.progress.current_step = "writing_manifest"
    /\ FlagsOf(parser) = <<TRUE, TRUE, S_manifest_unknown>>
    /\ SizeOf(parser, Digest_a) = 1048576

\* C27: the parser never sets completed; the coordinator sets it exactly
\* when the child exits with status zero, so the snapshot at the return has
\* completed = TRUE if and only if the call returns success = TRUE.
C27_CompletedIffSuccess ==
    rpc = "returned" => (result.snapshot.completed <=> result.success)

\* C28: a call of _run_command starts with a fresh snapshot and an empty
\* registry, and only lines of its own child are parsed into them: in a
\* second call whose child writes nothing, the parser is the fresh one, or
\* the fresh one marked completed at the exit, whatever the first call did.
C28_NoLinesOfEarlierOperation ==
    stale.parked => parser \in {NewParser, MarkOutcome(NewParser, SecondInput.code)}

\* the label values of a tracker's per-operation series
LabelsOf(t) == <<trk[t].operation, SrcShort(t), DstShort(t)>>

\* C29: no two trackers open at the same time use the same label tuple, so
\* a tracker that closes removes no series that another open tracker
\* created, and a heartbeat overwrites none.
C29_NoSharedSeries ==
    [][\A t, u \in { x \in Trackers : tpc[x] \in OpenPcs } :
          t # u =>
             /\ LabelsOf(t) # LabelsOf(u)
             /\ (tpc[t] = "remove" /\ tpc'[t] = "end") =>
                    \A e \in series : e.by = u => e \in series']_vars

\* C29, the consequence alone: a tracker that closes removes no series that
\* another open tracker created.
C29_ClosingRemovesOnlyOwnSeries ==
    [][\A t, u \in Trackers :
          (t # u /\ tpc[t] = "remove" /\ tpc'[t] = "end" /\ tpc[u] \in OpenPcs) =>
              \A e \in series : e.by = u => e \in series']_vars

\* C30: when the run ends by process exit, the stderr text that
\* _run_command returns holds every line the child wrote to its error
\* stream, in every interleaving of the monitor thread with communicate.
C30_ReturnedStderrIsComplete ==
    (rpc = "returned" /\ result.via = "exit") => result.stderr = TextOf(rin.lines)

\* update_heartbeat_metrics of tracker t has just published its gauges
JustPublished(t) == hpc[t] = "loop" /\ hbl[t].published

\* C31: while a tracker scope stays open, heartbeat publications keep
\* happening even if no progress event ever arrives: from every state in
\* which the scope is open, a publication of the duration, last-progress and
\* staleness gauges follows (the scope never closes here, so publications
\* happen infinitely often).
C31_HeartbeatKeepsPublishing ==
    (tpc[1] = "body") ~> JustPublished(1)

\* C31 witness: a publication that ended after the clock had passed
\* MaxTime, in a scope without any progress event.
C31_Witness ==
    /\ tpc[1] = "body"
    /\ JustPublished(1)
    /\ nEvents[1] = 0
    /\ now = MaxTime
    /\ trk[1].start_time = 1
    /\ \E e \in series : e.g = "stale" /\ e.by = 1

SpeedSeries(S, t) == Entries(S, "speed", t, NoStep)

\* C33: a heartbeat tick sets the throughput gauge only if the tracker has
\* recorded at least one blob at that tick, and while the tracker's blob
\* count is zero no throughput series exists for the operation.
C33_SpeedNeedsABlob ==
    [][\A t \in { x \in Trackers : tpc[x] # "unused" } :
          /\ trk[t].blob_count = 0 => SpeedSeries(series, t) = {}
          /\ (hpc[t] = "u_speed" /\ hpc'[t] = "u_progress" /\ trk[t].blob_count = 0)
                => SpeedSeries(series', t) = {}
          /\ (SpeedSeries(series', t) # SpeedSeries(series, t) /\ SpeedSeries(series', t) # {})
                => trk[t].blob_count > 0]_vars

\* C33 witness: a tick with a positive duration and no blob recorded went
\* past the throughput gauge and published the others.
C33_Witness ==
    /\ JustPublished(1)
    /\ trk[1].blob_count = 0
    /\ hbl[1].duration > 0
    /\ SpeedSeries(series, 1) = {}
    /\ Entries(series, "duration", 1, trk[1].current_step) # {}

\* what the get_metrics calls that began and returned after the same number of resets returned
GotBetween(k) ==
    UNION { { gm.got[th][i] : i \in { j \in 1..Len(gm.got[th]) :
                                       gm.got[th][j].began = k /\ gm.got[th][j].ended = k } }
            : th \in Threads }

\* C34: between two consecutive reset_metrics calls every get_metrics call
\* returns the same SkopeoMetrics instance, also when the first calls are
\* made by several threads at once, and a call after reset_metrics returns
\* an instance different from those returned before it.
C34_OneInstanceBetweenResets ==
    /\ \A k \in 0..MaxResets : \A a, b \in GotBetween(k) :
          a.inst = b.inst /\ a.inst # NoInstance
    /\ \A k, m \in 0..MaxResets : \A a \in GotBetween(k), b \in GotBetween(m) :
          k # m => a.inst # b.inst

\* C35: image_exists returns exists = TRUE if and only if the inspect run
\* succeeded; with success = TRUE the message is empty; with success =
\* FALSE exists is FALSE and the message is not empty; and a failed inspect
\* with empty error output gives (TRUE, FALSE, "").
C35_ImageExistsTriple ==
    outs # <<>> =>
        LET r == outs[1] IN
        /\ r.exists <=> result.success
        /\ r.success => r.message = <<>>
        /\ ~r.success => (~r.exists /\ r.message # <<>>)
        /\ (~result.success /\ result.stderr = <<>>) =>
              r = [success |-> TRUE, exists |-> FALSE, message |-> <<>>]

\* C35 witness: a failed inspect with empty error output was classified.
C35_Witness ==
    /\ outs # <<>>
    /\ ~result.success
    /\ result.stderr = <<>>
    /\ outs[1] = [success |-> TRUE, exists |-> FALSE, message |-> <<>>]

\* the positions of the heartbeat thread inside a tick, and the fields of a
\* tracker that progress events and add_blob write
TickPcs == {"sleep", "u_begin", "u_detailed", "u_duration", "u_speed", "u_progress", "u_stale"}
ProgressFields(t) ==
    <<trk[t].current_step, trk[t].last_progress_percent, trk[t].last_progress_time,
      trk[t].blob_count, trk[t].total_blob_size>>

\* C36: a step of a heartbeat tick leaves the tracker's current step, last
\* percentage, last-update time, blob count and byte total as they were;
\* the staleness a tick publishes is its own clock reading minus the
\* last-update time, which was written by the start of the heartbeat or by
\* a progress event, never by a tick.
C36_TickChangesOnlyGauges ==
    [][\A t \in Trackers :
          (hpc[t] \in TickPcs /\ hpc'[t] # hpc[t]) =>
             /\ ProgressFields(t)' = ProgressFields(t)
             /\ (hpc[t] = "u_stale" /\ ~Falsy(trk[t].last_progress_time)) =>
                   /\ \E e \in Entries(series', "stale", t, trk[t].current_step) :
                         e.val = <<hbl[t].current_time - trk[t].last_progress_time, 1>>
                   /\ \/ trk[t].time_ev > 0
                      \/ trk[t].last_progress_time = trk[t].start_time]_vars

\* C36 witness: without any progress event, a tick at time 3 published a
\* staleness of 2, the time since the start of the heartbeat, though an
\* earlier tick could have run at time 2.
C36_Witness ==
    /\ JustPublished(1)
    /\ nEvents[1] = 0
    /\ trk[1].last_progress_time = 1
    /\ \E e \in Entries(series, "stale", 1, trk[1].current_step) : e.val = <<2, 1>>


\* ------------------------------------------------------------------- C37
RECURSIVE KnownBytes(_)
KnownBytes(B) ==
    IF B = {} THEN 0
    ELSE LET b == CHOOSE x \in B : TRUE IN SizeArgument(b.size) + KnownBytes(B \ {b})

\* C37: in a copy with metrics enabled the tracker holds the step and the
\* percentage of the snapshot when the caller's callback is called, its blob
\* count is zero while the child runs, and once the body of the scope has
\* ended its blob count is the number of distinct digests in the registry of
\* the operation and its byte total the sum of their known sizes.
C37_TrackerFollowsCopy ==
    /\ \A k \in 1..Len(cbs) :
          /\ cbs[k].tracked.current_step = cbs[k].seen.current_step
          /\ PercentLE(Percent(0), cbs[k].tracked.percent)
    /\ proc.state = "running" => trk[1].blob_count = 0
    /\ tpc[1] = "exit" =>
          /\ trk[1].blob_count = Cardinality({ b.sha256 : b \in parser.blobs })
          /\ trk[1].total_blob_size = KnownBytes(parser.blobs)

\* ------------------------------------------------------------------- C38
DigestsOf(p) == { b.sha256 : b \in p.blobs }

\* C38: a call of parse_line never removes a digest from the registry,
\* never resets manifest_written or signatures_stored, and never clears an
\* error text that was captured, though it may move the step away from
\* "error".
C38_ParserOnlyAccumulates ==
    [][ /\ DigestsOf(parser) \subseteq DigestsOf(parser')
        /\ parser.progress.manifest_written => parser'.progress.manifest_written
        /\ parser.progress.signatures_stored => parser'.progress.signatures_stored
        /\ parser.progress.error # <<>> => parser'.progress.error # <<>> ]_vars

C38_Witness ==
    /\ Cardinality(DigestsOf(parser)) > 1
    /\ parser.progress.manifest_written
    /\ parser.progress.error # <<>>
    /\ parser.progress.current_step = "writing_manifest"

Triple(r) == [success |-> r.success, stdout |-> r.stdout, stderr |-> r.stderr]
copy_without_metrics == [raised |-> NoExc, triple |-> Triple(result)]
copy_with_metrics ==
    IF pend[1].exc = NoExc THEN [raised |-> NoExc, triple |-> Triple(result)]
    ELSE [raised |-> pend[1].exc, triple |-> Triple(NoResult)]

\* C40: when the body of a copy with metrics enabled has ended, the caller
\* is handed what the copy without metrics hands it for the same run of
\* _run_command.
C40_MetricsLeaveResultAlone ==
    tpc[1] = "exit" => copy_with_metrics = copy_without_metrics
====
